---- MODULE Spec2Model ----
(***************************************************************************)
(* Newsletter delivery core of email_newsletter: the idempotent publish    *)
(* command, the Postgres-backed issue delivery queue with its worker, and  *)
(* the subscriber status the publish command reads.                        *)
(*                                                                         *)
(* The database is modelled at READ COMMITTED: a transaction's writes sit  *)
(* in that transaction until it commits; a statement run on the pool sees  *)
(* committed rows only and commits on its own; a row lock taken by         *)
(* SELECT .. FOR UPDATE, and an uncommitted insert of a primary key, make  *)
(* a conflicting statement of another connection wait until the holder     *)
(* commits or rolls back.                                                  *)
(***************************************************************************)
EXTENDS Integers, Sequences, FiniteSets, TLC

(* ------------------------------ bounds --------------------------------- *)
MaxRequests == 2
MaxTime == 1
MaxCalls == 6
MaxFaults == 1
MaxSubscribes == 3
MaxConfirms == 2
MaxHeaders == 3
MaxCommitFaults == 5
MaxAttemptCount == 8

(* ------------------------- program constants --------------------------- *)
CONCURRENT_TASKS == 10
MAX_RETRY_ATTEMPTS == 5
RETRY_BACKOFF_MINUTES == 5
BackoffCap == 32
SeeOtherStatus == 303
InternalServerError == 500
OkStatus == 200
BadRequest == 400
TokenLength == 25
UnprocessableEntity == 422
RETENTION_DAYS == 30
CLEANUP_INTERVAL_HOURS == 24
IdempotencyKeyMaxLength == 50

(* The universe: the admin users, the idempotency keys they send, the      *)
(* addresses that may subscribe (numbered in the order they subscribe) and *)
(* the worker processes sharing the database.                              *)
Requests == 1..MaxRequests
Keys == {1, 2}
Users == {1}
Emails == {1, 2}

(* An address that SubscriberEmail::parse rejects; the subscriptions table *)
(* is a text column and can hold it.                                       *)
InvalidAddress == 0
Addresses == Emails \cup {InvalidAddress}
SubscribeRequests == 1..MaxSubscribes
ConfirmRequests == 1..MaxConfirms
Workers == {1, 2}
IssueIds == 1..MaxRequests
Fingerprints == Users \X Keys
RowKeys == IssueIds \X Addresses

(* Option<T>: None is the empty sequence, Some(v) the one-element one. *)
None == <<>>
Some(v) == <<v>>
IsSome(o) == Len(o) = 1
Unwrap(o) == o[1]

(* ------------------------------ responses ------------------------------ *)
(* utils::see_other: Redirect::to(location), a 303 with a Location header  *)
(* and an empty body.                                                      *)
see_other(location) ==
    [status |-> SeeOtherStatus, headers |-> << <<"location", location>> >>, body |-> ""]

(* utils::e500: AppError with status 500 and a JSON body naming the error. *)
e500(error) ==
    [status |-> InternalServerError,
     headers |-> << <<"content-type", "application/json">> >>,
     body |-> error]

(* utils::e400: AppError with status 400 and a JSON body naming the error. *)
e400(error) ==
    [status |-> BadRequest,
     headers |-> << <<"content-type", "application/json">> >>,
     body |-> error]

(* http::HeaderMap: the names in the order of their first append, each     *)
(* with its values in the order they were appended.                        *)
HeaderMapAppend(map, name, value) ==
    IF \E n \in 1..Len(map) : map[n].name = name
    THEN [n \in 1..Len(map) |->
             IF map[n].name = name
             THEN [map[n] EXCEPT !.values = Append(@, value)]
             ELSE map[n]]
    ELSE Append(map, [name |-> name, values |-> <<value>>])

RECURSIVE HeaderMapFrom(_)
(* The map that appending the pairs of a list, first to last, builds. *)
HeaderMapFrom(pairs) ==
    IF pairs = <<>> THEN <<>>
    ELSE LET front == SubSeq(pairs, 1, Len(pairs) - 1)
             last == pairs[Len(pairs)]
         IN HeaderMapAppend(HeaderMapFrom(front), last[1], last[2])

RECURSIVE HeaderIter(_)
(* HeaderMap::iter: name by name, every value of a name in turn. *)
HeaderIter(map) ==
    IF map = <<>> THEN <<>>
    ELSE [n \in 1..Len(Head(map).values) |-> <<Head(map).name, Head(map).values[n]>>]
            \o HeaderIter(Tail(map))

(* The headers of a response that was built by appending the pairs. *)
HeadersOf(pairs) == HeaderIter(HeaderMapFrom(pairs))

(* Faulty: the headers are stored as a map from name to one value. *)
StoredHeadersAsMap(http_response) ==
    LET map == HeaderMapFrom(http_response.headers)
    IN [n \in 1..Len(map) |-> <<map[n].name, map[n].values[Len(map[n].values)]>>]

(* save_response: the (name, value) pairs it stores, from                  *)
(* response_head.headers.iter().                                           *)
StoredHeaders(http_response) == http_response.headers

(* `status.as_u16() as i16`: the two's-complement reinterpretation. *)
AsI16(u) == IF u >= 32768 THEN u - 65536 ELSE u

(* save_response: the row as the UPDATE leaves it. *)
ResponseColumns(http_response, created_at) ==
    [response_status_code |-> Some(AsI16(http_response.status)),
     response_headers |-> Some(StoredHeaders(http_response)),
     response_body |-> Some(http_response.body),
     created_at |-> created_at]

(* get_saved_response, its rebuild of a response from a fetched row: the    *)
(* columns are declared non-null, so a NULL column is a decode error; the   *)
(* status must convert back to u16 and be a valid StatusCode (100..999).    *)
RebuildResponse(row) ==
    IF ~(IsSome(row.response_status_code) /\ IsSome(row.response_headers)
         /\ IsSome(row.response_body))
    THEN None
    ELSE LET code == Unwrap(row.response_status_code) IN
         IF code < 100 \/ code > 999
         THEN None
         ELSE Some([status |-> code,
                    headers |-> HeadersOf(Unwrap(row.response_headers)),
                    body |-> Unwrap(row.response_body)])

(* ------------------------------- state --------------------------------- *)
VARIABLES
    now,                \* the clock, in units of RETRY_BACKOFF_MINUTES
    subscriptions,      \* email -> status (committed)
    idempotency,        \* committed rows: fingerprint -> columns
    newsletter_issues,  \* committed issue ids
    issue_delivery_queue, \* committed rows: <<issue, email>> -> columns
    dead_letter_queue,  \* committed rows: <<issue, email>> -> columns
    req,                \* publish requests: position, transaction, response
    next_issue_id,      \* the next fresh newsletter_issue_id
    wk,                 \* workers: position in worker_loop / try_execute_tasks
    tasks,              \* leased tasks: <<worker, <<issue, email>>>> -> task state
    faults,             \* database errors and panics injected so far
    log,                \* history: what was published, enqueued and sent
    subscription_tokens, \* committed rows: token -> subscriber (its address)
    sreq,               \* subscribe requests: position, transaction, response
    creq,               \* confirm requests: position, response
    rt,                 \* one save_response / get_saved_response round trip
    session,            \* the admin's session: its flash messages, oldest first
    cl,                 \* the retention sweeper: position in cleanup_loop
    proc                \* the process: "running" until main returns

vars == <<now, subscriptions, idempotency, newsletter_issues, issue_delivery_queue,
          dead_letter_queue, req, next_issue_id, wk, tasks, faults, log,
          subscription_tokens, sreq, creq, rt, session, cl, proc>>

dbVars == <<idempotency, newsletter_issues, issue_delivery_queue, dead_letter_queue>>
workerVars == <<wk, tasks, faults>>
sysVars == <<cl, proc>>
otherVars == <<subscription_tokens, sreq, creq, rt, sysVars>>
auxVars == <<otherVars, session>>
pubVars == <<now, dbVars, req, next_issue_id, workerVars, log>>

EmptyFn == [x \in {} |-> 0]

(* A request's open transaction: the writes it has made and not committed. *)
NoTxn ==
    [open |-> FALSE, reservation |-> FALSE, created_at |-> 0, issue |-> None, rows |-> {}]

IdleRequest ==
    [pc |-> "idle", user_id |-> 1, idempotency_key |-> 1, txn |-> NoTxn,
     response |-> None, branch |-> "none", parallel |-> FALSE]

(* A worker at the top of worker_loop: n counts the rows leased by the     *)
(* current call of try_execute_tasks.                                      *)
IdleWorker == [pc |-> "dequeue_tasks", n |-> 0]

(* A subscribe request: seen is what get_subscriber_by_email returned,     *)
(* inserted says that its open transaction holds an uncommitted            *)
(* subscriptions row, created that it committed one.                       *)
IdleSubscribe ==
    [pc |-> "idle", email |-> 1, seen |-> "none", token |-> None,
     inserted |-> FALSE, created |-> FALSE, response |-> None, mail |-> "none"]

(* A confirm request: db_access says that it has run a query. *)
IdleConfirm ==
    [pc |-> "idle", token |-> <<>>, subscriber |-> None, seen |-> "none",
     response |-> None, db_access |-> FALSE]

NoRoundTrip ==
    [pc |-> "idle", http_response |-> None, returned |-> None, row |-> None,
     replayed |-> None]

(* The sweeper at the top of cleanup_loop: deleted is the row count of its *)
(* last sweep, errors counts the sweeps whose failure it has logged.       *)
IdleCleanup == [pc |-> "delete_stale_idempotency_keys", slept_at |-> 0,
                deleted |-> None, errors |-> 0]

Init ==
    /\ now = 0
    /\ subscriptions = [e \in Addresses |-> "absent"]
    /\ idempotency = EmptyFn
    /\ newsletter_issues = {}
    /\ issue_delivery_queue = EmptyFn
    /\ dead_letter_queue = EmptyFn
    /\ req = [r \in Requests |-> IdleRequest]
    /\ next_issue_id = 1
    /\ wk = [w \in Workers |-> IdleWorker]
    /\ tasks = EmptyFn
    /\ faults = 0
    /\ log = [published |-> EmptyFn, confirmed_then |-> EmptyFn, enqueued |-> {},
              calls |-> EmptyFn]
    /\ subscription_tokens = EmptyFn
    /\ sreq = [r \in SubscribeRequests |-> IdleSubscribe]
    /\ creq = [c \in ConfirmRequests |-> IdleConfirm]
    /\ rt = NoRoundTrip
    /\ session = <<>>
    /\ cl = IdleCleanup
    /\ proc = "running"


Put(f, k, v) == [x \in DOMAIN f \cup {k} |-> IF x = k THEN v ELSE f[x]]
Remove(f, k) == [x \in DOMAIN f \ {k} |-> f[x]]

(* Faulty: the record is looked up by its key alone. *)
FingerprintByKey(r) == <<1, req[r].idempotency_key>>

Fingerprint(r) == <<req[r].user_id, req[r].idempotency_key>>

(* --------------------------- subscriptions ----------------------------- *)
(* subscribe: an unknown address is inserted as pending_confirmation; a    *)
(* pending or confirmed address keeps its row and its status.              *)
Subscribe(e) ==
    /\ \A o \in Emails : o < e => subscriptions[o] # "absent"
    /\ subscriptions' =
         IF subscriptions[e] = "absent"
         THEN [subscriptions EXCEPT ![e] = "pending_confirmation"]
         ELSE subscriptions
    /\ subscriptions' # subscriptions
    /\ UNCHANGED <<auxVars, now, dbVars, req, next_issue_id, workerVars, log>>

(* confirm -> confirm_subscriber: a token exists only for a stored         *)
(* subscriber; a pending subscriber becomes confirmed, a confirmed one     *)
(* stays confirmed.                                                        *)
Confirm(e) ==
    /\ subscriptions[e] = "pending_confirmation"
    /\ subscriptions' = [subscriptions EXCEPT ![e] = "confirmed"]
    /\ UNCHANGED <<auxVars, now, dbVars, req, next_issue_id, workerVars, log>>

(* ------------------------------ the session ---------------------------- *)
AcceptedText == "The newsletter issue has been accepted - emails will go out shortly"

(* TypedSession::flash_info -> push_flash: the stored list with the new    *)
(* message at its end.                                                     *)
flash_info(messages, content) ==
    Append(messages, [level |-> "Info", content |-> content])

(* Faulty: the branch returns without a flash message. *)
NoFlash(messages) == messages

(* publish_newsletter, the flash of its ReturnSavedResponse branch. *)
FlashOnReturnSaved(messages) == flash_info(messages, AcceptedText)

(* publish_newsletter, the flash of its StartProcessing branch. *)
FlashOnStartProcessing(messages) == flash_info(messages, AcceptedText)

(* TypedSession::get_flash_messages, as login_form and                     *)
(* change_password_form call it: the stored list is removed from the       *)
(* session and rendered.                                                   *)
GetFlashMessages ==
    /\ session' = <<>>
    /\ UNCHANGED <<otherVars, now, subscriptions, dbVars, req, next_issue_id, workerVars, log>>

(* ------------------------- publish_newsletter -------------------------- *)
(* Another request with this user and key is being handled. *)
InFlightWith(u, k) ==
    \E o \in Requests :
        /\ req[o].pc \notin {"idle", "done"}
        /\ req[o].user_id = u
        /\ req[o].idempotency_key = k

(* The request arrives (requests are numbered in the order they arrive,    *)
(* keys in the order of their first use); try_processing opens its         *)
(* transaction, whose start is what now() returns to its statements.       *)
PublishStart(r, u, k) ==
    /\ req[r].pc = "idle"
    /\ \A o \in 1..(r - 1) : req[o].pc # "idle"
    /\ k <= Cardinality({req[o].idempotency_key : o \in 1..(r - 1)}) + 1
    /\ req' = [req EXCEPT ![r] =
                 [@ EXCEPT !.pc = "try_processing", !.user_id = u,
                           !.idempotency_key = k,
                           !.parallel = InFlightWith(u, k),
                           !.txn = [NoTxn EXCEPT !.open = TRUE, !.created_at = now]]]
    /\ UNCHANGED <<auxVars, now, subscriptions, dbVars, next_issue_id, workerVars, log>>

(* Faulty: the insert decides at once, as a check without the key's lock. *)
InsertNeverWaits(r) == FALSE

(* An uncommitted insert of the same primary key by another open           *)
(* transaction: INSERT .. ON CONFLICT DO NOTHING waits for that            *)
(* transaction to end before it decides.                                   *)
InsertWaits(r) ==
    \E o \in Requests \ {r} :
        /\ req[o].txn.open
        /\ req[o].txn.reservation
        /\ Fingerprint(o) = Fingerprint(r)

(* Faulty: a plain INSERT decision that never sees the conflict. *)
n_inserted_rows_ignoring_conflict(r) == 1

(* ON CONFLICT DO NOTHING: a committed row with this key makes the insert  *)
(* affect no row.                                                          *)
n_inserted_rows(r) == IF Fingerprint(r) \in DOMAIN idempotency THEN 0 ELSE 1

(* try_processing, the reservation insert and the branch on its row        *)
(* count; on StartProcessing, insert_newsletter_issue follows: a fresh id, *)
(* inserted inside the same transaction.                                   *)
TryProcessing(r) ==
    /\ req[r].pc = "try_processing"
    /\ ~InsertWaits(r)
    /\ IF n_inserted_rows(r) > 0
       THEN /\ req' = [req EXCEPT ![r] =
                   [@ EXCEPT !.pc = "enequeue_delivery_tasks",
                             !.branch = "StartProcessing",
                             !.txn = [@ EXCEPT !.reservation = TRUE,
                                               !.issue = Some(next_issue_id)]]]
            /\ next_issue_id' = next_issue_id + 1
            /\ log' = [log EXCEPT !.published = Put(@, next_issue_id, Fingerprint(r))]
       ELSE /\ req' = [req EXCEPT ![r] = [@ EXCEPT !.pc = "get_saved_response"]]
            /\ UNCHANGED <<next_issue_id, log>>
    /\ UNCHANGED <<auxVars, now, subscriptions, dbVars, workerVars>>

(* try_processing, the no-row-inserted branch: get_saved_response reads    *)
(* the committed row on the pool; no row, or one that does not decode, is  *)
(* an error that publish_newsletter maps to a 500. The transaction opened  *)
(* for the insert is dropped. With a saved response publish_newsletter     *)
(* pushes the flash message and returns the response.                      *)
GetSavedResponse(r) ==
    /\ req[r].pc = "get_saved_response"
    /\ LET fp == Fingerprint(r)
           saved == IF fp \in DOMAIN idempotency
                    THEN RebuildResponse(idempotency[fp])
                    ELSE None
       IN /\ req' = [req EXCEPT ![r] =
                    IF IsSome(saved)
                    THEN [@ EXCEPT !.pc = "done", !.txn = NoTxn,
                                   !.branch = "ReturnSavedResponse",
                                   !.response = saved]
                    ELSE [@ EXCEPT !.pc = "done", !.txn = NoTxn,
                                   !.branch = "error",
                                   !.response = Some(e500("No saved response found"))]]
          /\ session' = IF IsSome(saved) THEN FlashOnReturnSaved(session) ELSE session
    /\ UNCHANGED <<otherVars, now, subscriptions, dbVars, next_issue_id, workerVars, log>>

(* Faulty: the SELECT without its WHERE clause. *)
AllSubscribers(subs) == {e \in Addresses : subs[e] # "absent"}

(* enequeue_delivery_tasks: SELECT email FROM subscriptions WHERE status = *)
(* 'confirmed'.                                                            *)
ConfirmedEmails(subs) == {e \in Addresses : subs[e] = "confirmed"}

(* Faulty: the row starts with the retry budget instead of zero. *)
NewTaskAtBudget ==
    [attempt_count |-> MAX_RETRY_ATTEMPTS, last_attempted_at |-> None,
     error_message |-> None]

(* A queue row as the INSERT leaves it: the columns it does not name take  *)
(* their defaults.                                                         *)
NewTask == [attempt_count |-> 0, last_attempted_at |-> None, error_message |-> None]

(* Faulty: the INSERT run on the pool instead of the transaction, so the   *)
(* rows are committed at once.                                             *)
EnqueueOnPool(r) ==
    /\ req[r].pc = "enequeue_delivery_tasks"
    /\ LET rows == {<<Unwrap(req[r].txn.issue), e>> : e \in ConfirmedEmails(subscriptions)}
       IN /\ issue_delivery_queue' =
               [k \in DOMAIN issue_delivery_queue \cup rows |->
                   IF k \in rows THEN NewTask ELSE issue_delivery_queue[k]]
          /\ log' = [log EXCEPT !.confirmed_then =
                        Put(@, Unwrap(req[r].txn.issue),
                            {e \in Addresses : subscriptions[e] = "confirmed"}),
                                !.enqueued = @ \cup rows]
    /\ req' = [req EXCEPT ![r] = [@ EXCEPT !.pc = "save_response"]]
    /\ UNCHANGED <<auxVars, now, subscriptions, idempotency, newsletter_issues,
                   dead_letter_queue, next_issue_id, workerVars>>

(* enequeue_delivery_tasks: one row per selected email, inserted inside    *)
(* the transaction.                                                        *)
EnqueueDeliveryTasks(r) ==
    /\ req[r].pc = "enequeue_delivery_tasks"
    /\ req' = [req EXCEPT ![r] =
                 [@ EXCEPT !.pc = "save_response",
                           !.txn = [@ EXCEPT !.rows = ConfirmedEmails(subscriptions)]]]
    /\ log' = [log EXCEPT !.confirmed_then =
                  Put(@, Unwrap(req[r].txn.issue),
                      {e \in Addresses : subscriptions[e] = "confirmed"})]
    /\ UNCHANGED <<auxVars, now, subscriptions, dbVars, next_issue_id, workerVars>>

(* What a commit of the request's transaction makes visible.               *)
CommittedIssues(r) ==
    IF IsSome(req[r].txn.issue) THEN {Unwrap(req[r].txn.issue)} ELSE {}

CommittedRows(r) ==
    IF IsSome(req[r].txn.issue)
    THEN {<<Unwrap(req[r].txn.issue), e>> : e \in req[r].txn.rows}
    ELSE {}

(* publish_newsletter's tail: the flash message is pushed, the 303 is      *)
(* built and save_response writes it into the reservation row and commits  *)
(* the transaction, which makes the reservation, the issue and the queue   *)
(* rows visible together.                                                  *)
SaveResponse(r) ==
    /\ req[r].pc = "save_response"
    /\ LET response == see_other("/admin/newsletters")
           rows == CommittedRows(r)
       IN /\ idempotency' =
               Put(idempotency, Fingerprint(r),
                   ResponseColumns(response, req[r].txn.created_at))
          /\ newsletter_issues' = newsletter_issues \cup CommittedIssues(r)
          /\ issue_delivery_queue' =
               [k \in DOMAIN issue_delivery_queue \cup rows |->
                   IF k \in rows THEN NewTask ELSE issue_delivery_queue[k]]
          /\ log' = [log EXCEPT !.enqueued = @ \cup rows]
          /\ req' = [req EXCEPT ![r] =
                       [@ EXCEPT !.pc = "done", !.txn = NoTxn,
                                 !.response = Some(response)]]
          /\ session' = FlashOnStartProcessing(session)
    /\ UNCHANGED <<otherVars, now, subscriptions, dead_letter_queue, next_issue_id, workerVars>>


(* ----------------------------- the clock ------------------------------- *)
Tick ==
    /\ now < MaxTime
    /\ now' = now + 1
    /\ UNCHANGED <<auxVars, subscriptions, dbVars, req, next_issue_id, workerVars, log>>

(* The clock is read later, at instant t. *)
Pass(t) ==
    /\ t > now
    /\ now' = t
    /\ UNCHANGED <<auxVars, subscriptions, dbVars, req, next_issue_id, workerVars, log>>

(* --------------------------- delivery worker --------------------------- *)
TasksOf(w) == {t \in DOMAIN tasks : t[1] = w}

(* Faulty: a SELECT without FOR UPDATE takes no lock. *)
RowNeverLocked(k) == FALSE

(* The row lock of SELECT .. FOR UPDATE, held by a lease transaction until *)
(* it commits or rolls back.                                               *)
RowLocked(k) == \E t \in DOMAIN tasks : tasks[t].txn_open /\ tasks[t].row = k

(* Faulty: the SELECT returns any row, locked or not. *)
AnyQueueRow == DOMAIN issue_delivery_queue

(* dequeue_tasks, the rows its SELECT .. FOR UPDATE SKIP LOCKED can return. *)
Leasable == {k \in DOMAIN issue_delivery_queue : ~RowLocked(k)}

(* A task as try_execute_tasks spawns it: the open lease transaction and   *)
(* the leased (issue, email).                                              *)
NewLease(k) ==
    [row |-> k, pc |-> "start", txn_open |-> TRUE, attempt_count |-> 0,
     new_attempt_count |-> 0, send_result |-> "none", result |-> "none"]

(* dequeue_tasks, one iteration that finds a row: a new transaction leases *)
(* one unlocked row, whichever the database returns.                       *)
DequeueTask(w) ==
    /\ wk[w].pc = "dequeue_tasks"
    /\ wk[w].n < CONCURRENT_TASKS
    /\ \E k \in Leasable :
          tasks' = Put(tasks, <<w, k>>, NewLease(k))
    /\ wk' = [wk EXCEPT ![w] = [@ EXCEPT !.n = @ + 1]]
    /\ UNCHANGED <<auxVars, now, subscriptions, dbVars, req, next_issue_id, faults, log>>

(* dequeue_tasks returns (the limit is reached or no row is left). With    *)
(* nothing leased try_execute_tasks returns EmptyQueue and worker_loop     *)
(* sleeps; otherwise the leased tasks are spawned.                         *)
DequeueReturn(w) ==
    /\ wk[w].pc = "dequeue_tasks"
    /\ wk[w].n = CONCURRENT_TASKS \/ Leasable = {}
    /\ wk' = [wk EXCEPT ![w] =
                IF wk[w].n = 0
                THEN [@ EXCEPT !.pc = "sleep_10s"]
                ELSE [@ EXCEPT !.pc = "join"]]
    /\ UNCHANGED <<auxVars, now, subscriptions, dbVars, req, next_issue_id, tasks, faults, log>>

(* Faulty: the task's transaction outlives the task that returned. *)
EndedHoldingLease(task, result) == [task EXCEPT !.pc = "done", !.result = result]

(* A task that has ended: its transaction is closed, by its own commit or  *)
(* rollback or, on an error return or a panic, by being dropped.           *)
Ended(task, result) ==
    [task EXCEPT !.pc = "done", !.txn_open = FALSE, !.result = result]

Min(a, b) == IF a < b THEN a ELSE b

(* The clock counts periods of RETRY_BACKOFF_MINUTES minutes. *)
SecondsPerTick == RETRY_BACKOFF_MINUTES * 60

(* Faulty: the wait grows by one base period per attempt. *)
backoff_linear(attempt_count) == RETRY_BACKOFF_MINUTES * 60 * (attempt_count + 1)

(* backoff_duration, in seconds. *)
backoff_duration(attempt_count) ==
    RETRY_BACKOFF_MINUTES * 60 * Min(2 ^ attempt_count, BackoffCap)

(* Faulty: a row that was never attempted counts as attempted at instant 0. *)
TooSoonNullAsEpoch(attempt_count, last_attempted_at) ==
    LET last == IF IsSome(last_attempted_at) THEN Unwrap(last_attempted_at) ELSE 0
    IN (now - last) * SecondsPerTick < backoff_duration(attempt_count)

(* The backoff gate: the row was attempted before and too little time has  *)
(* passed since.                                                           *)
TooSoon(attempt_count, last_attempted_at) ==
    /\ IsSome(last_attempted_at)
    /\ (now - Unwrap(last_attempted_at)) * SecondsPerTick
          < backoff_duration(attempt_count)

(* Faulty: every stored address is taken as valid. *)
ParseAcceptsAll(e) == TRUE

(* SubscriberEmail::parse on a stored address: every address in            *)
(* subscriptions went through the same parse when it subscribed.           *)
SubscriberEmailParse(e) == e \in Emails

(* move_to_dead_letter_queue: an upsert on the pool, committed at once.    *)
DeadLetterUpsert(k, attempt_count, error_message) ==
    Put(dead_letter_queue, k,
        [attempt_count |-> attempt_count, last_error |-> error_message,
         failed_at |-> now])

(* The retry budget is used up by this failure. *)
Exhausted(new_attempt_count) == new_attempt_count >= MAX_RETRY_ATTEMPTS

(* The provider calls made so far for a row, each with its outcome. *)
CallsFor(k) == IF k \in DOMAIN log.calls THEN log.calls[k] ELSE <<>>

(* execute_single_task from its start to the statement that ends it.       *)
(* get_attempt_count and get_last_attempted read the committed row on the  *)
(* pool (fetch_one: no row is an error); inside the backoff window the     *)
(* lease is rolled back and the task returns Ok. An address that does not  *)
(* parse goes to the dead-letter queue with the attempt count read.        *)
(* Otherwise get_issue reads the issue on the pool (fetch_one again) and   *)
(* the provider is called, which accepts or fails the call: success goes   *)
(* on to delete_task; a failure that uses up the budget writes the         *)
(* dead-letter record and goes on to delete_task; any other failure goes   *)
(* on to update_retry_tracking.                                            *)
SendEmail(t, outcome) ==
    /\ t \in DOMAIN tasks
    /\ wk[t[1]].pc = "join"
    /\ tasks[t].pc = "start"
    /\ LET k == tasks[t].row IN
       IF k \notin DOMAIN issue_delivery_queue
       THEN /\ tasks' = [tasks EXCEPT ![t] = Ended(@, "Err")]
            /\ UNCHANGED <<dead_letter_queue, log>>
       ELSE
       LET attempt_count == issue_delivery_queue[k].attempt_count
           last_attempted_at == issue_delivery_queue[k].last_attempted_at
           new_attempt_count == attempt_count + 1
       IN IF TooSoon(attempt_count, last_attempted_at)
          THEN /\ tasks' = [tasks EXCEPT ![t] = Ended(@, "Ok")]
               /\ UNCHANGED <<dead_letter_queue, log>>
          ELSE IF ~SubscriberEmailParse(k[2])
          THEN /\ dead_letter_queue' = DeadLetterUpsert(k, attempt_count, "invalid email")
               /\ tasks' = [tasks EXCEPT ![t] =
                              [@ EXCEPT !.pc = "delete_task",
                                        !.attempt_count = attempt_count]]
               /\ UNCHANGED log
          ELSE IF k[1] \notin newsletter_issues
          THEN /\ tasks' = [tasks EXCEPT ![t] = Ended(@, "Err")]
               /\ UNCHANGED <<dead_letter_queue, log>>
          ELSE /\ Len(CallsFor(k)) < MaxCalls
               /\ log' = [log EXCEPT !.calls = Put(@, k, Append(CallsFor(k), outcome))]
               /\ dead_letter_queue' =
                    IF outcome = "Err" /\ Exhausted(new_attempt_count)
                    THEN DeadLetterUpsert(k, new_attempt_count, "send failed")
                    ELSE dead_letter_queue
               /\ tasks' = [tasks EXCEPT ![t] =
                     [@ EXCEPT !.pc = IF outcome = "Err" /\ ~Exhausted(new_attempt_count)
                                      THEN "update_retry_tracking"
                                      ELSE "delete_task",
                               !.attempt_count = attempt_count,
                               !.new_attempt_count = new_attempt_count,
                               !.send_result = outcome]]
    /\ UNCHANGED <<auxVars, now, subscriptions, idempotency, newsletter_issues,
                   issue_delivery_queue, req, next_issue_id, wk, faults>>

(* update_retry_tracking runs its UPDATE on a pool connection: it waits    *)
(* while any open transaction holds the row's lock, the task's own lease   *)
(* transaction included, which execute_single_task rolls back only after   *)
(* update_retry_tracking has returned.                                     *)
UpdateWaits(t) == RowLocked(tasks[t].row)

(* Faulty: the DELETE is never committed, so dropping the lease undoes it. *)
DeleteNotCommitted(k) == issue_delivery_queue

(* delete_task: the DELETE in the lease transaction, and its commit.       *)
delete_task(k) == Remove(issue_delivery_queue, k)

(* execute_single_task, its last step. After delete_task: the DELETE in    *)
(* the lease transaction and its commit. After update_retry_tracking has   *)
(* written the row: the rollback of the lease.                             *)
CompleteTask(t) ==
    /\ t \in DOMAIN tasks
    /\ tasks[t].pc \in {"delete_task", "update_retry_tracking"}
    /\ tasks[t].pc = "update_retry_tracking" => ~UpdateWaits(t)
    /\ issue_delivery_queue' =
         IF tasks[t].pc = "delete_task"
         THEN delete_task(tasks[t].row)
         ELSE [issue_delivery_queue EXCEPT ![tasks[t].row] =
                 [attempt_count |-> tasks[t].new_attempt_count,
                  last_attempted_at |-> Some(now),
                  error_message |-> Some("send failed")]]
    /\ tasks' = [tasks EXCEPT ![t] = Ended(@, "Ok")]
    /\ UNCHANGED <<auxVars, now, subscriptions, idempotency, newsletter_issues,
                   dead_letter_queue, req, next_issue_id, wk, faults, log>>

(* Faulty: the join loop returns the first task error to its caller. *)
JoinOutcomePropagating(w) ==
    IF \E t \in TasksOf(w) : tasks[t].pc = "done" /\ tasks[t].result # "Ok"
    THEN "Err"
    ELSE IF \A t \in TasksOf(w) : tasks[t].pc = "done" THEN "TaskCompleted" ELSE "pending"

(* try_execute_tasks, what its join loop makes of the join set: Ok, Err    *)
(* and a join error (a panic) are logged alike and the loop goes on until  *)
(* join_next has yielded every task; then TaskCompleted is returned.       *)
JoinOutcome(w) ==
    IF \A t \in TasksOf(w) : tasks[t].pc = "done" THEN "TaskCompleted" ELSE "pending"

(* try_execute_tasks returns from its join loop (dropping the join set)    *)
(* and worker_loop goes on: at once after TaskCompleted, after a sleep     *)
(* after an error.                                                         *)
ReturnFromJoin(w) ==
    /\ wk[w].pc = "join"
    /\ JoinOutcome(w) # "pending"
    /\ tasks' = [t \in DOMAIN tasks \ TasksOf(w) |-> tasks[t]]
    /\ wk' = [wk EXCEPT ![w] =
                [IdleWorker EXCEPT !.pc = IF JoinOutcome(w) = "TaskCompleted"
                                          THEN "dequeue_tasks" ELSE "sleep_1s"]]
    /\ UNCHANGED <<auxVars, now, subscriptions, dbVars, req, next_issue_id, faults, log>>

(* worker_loop, the sleep is over (10 s after EmptyQueue, 1 s after an     *)
(* error): the next call of try_execute_tasks.                             *)
WakeUp(w) ==
    /\ wk[w].pc \in {"sleep_10s", "sleep_1s"}
    /\ wk' = [wk EXCEPT ![w] = IdleWorker]
    /\ UNCHANGED <<auxVars, now, subscriptions, dbVars, req, next_issue_id, tasks, faults, log>>

(* A database error (a failed statement, commit or rollback) makes the     *)
(* task return Err; a panic ends it with a join error. Either way the      *)
(* lease transaction is dropped, which rolls it back.                      *)
TaskFails(t, how) ==
    /\ t \in DOMAIN tasks
    /\ wk[t[1]].pc = "join"
    /\ tasks[t].pc # "done"
    /\ faults < MaxFaults
    /\ faults' = faults + 1
    /\ tasks' = [tasks EXCEPT ![t] = Ended(@, how)]
    /\ UNCHANGED <<auxVars, now, subscriptions, dbVars, req, next_issue_id, wk, log>>

(* try_execute_tasks fails at batch level: in dequeue_tasks a pool.begin()  *)
(* or the SELECT returns an error, which `?` hands on through              *)
(* try_execute_tasks to worker_loop. The leases taken so far in this batch *)
(* are dropped with dequeue_tasks' vector, which rolls them back; no task  *)
(* is spawned and worker_loop sleeps a second.                             *)
DequeueFails(w) ==
    /\ wk[w].pc = "dequeue_tasks"
    /\ faults < MaxFaults
    /\ faults' = faults + 1
    /\ tasks' = [t \in DOMAIN tasks \ TasksOf(w) |-> tasks[t]]
    /\ wk' = [wk EXCEPT ![w] = [IdleWorker EXCEPT !.pc = "sleep_1s"]]
    /\ UNCHANGED <<auxVars, now, subscriptions, dbVars, req, next_issue_id, log>>

(* ---------------------------- specification ---------------------------- *)
TaskIds == Workers \X RowKeys
SendOutcomes == {"Ok", "Err"}

Next ==
    \/ \E e \in Emails : Subscribe(e)
    \/ \E e \in Emails : Confirm(e)
    \/ \E r \in Requests, u \in Users, k \in Keys : PublishStart(r, u, k)
    \/ \E r \in Requests : TryProcessing(r)
    \/ \E r \in Requests : GetSavedResponse(r)
    \/ \E r \in Requests : EnqueueDeliveryTasks(r)
    \/ \E r \in Requests : SaveResponse(r)
    \/ \E w \in Workers : DequeueTask(w)
    \/ \E w \in Workers : DequeueReturn(w)
    \/ \E t \in TaskIds, outcome \in SendOutcomes : SendEmail(t, outcome)
    \/ \E t \in TaskIds : CompleteTask(t)
    \/ \E w \in Workers : ReturnFromJoin(w)
    \/ \E w \in Workers : WakeUp(w)

Spec == Init /\ [][Next]_vars

(* The same with the clock running. *)
NextClock == Next \/ Tick

SpecClock == Init /\ [][NextClock]_vars

(* The same with database errors and panics in the worker's tasks. *)
Failures == {"Err", "Panic"}

NextFaults ==
    \/ Next
    \/ \E t \in TaskIds, how \in Failures : TaskFails(t, how)

SpecFaults == Init /\ [][NextFaults]_vars


(* delete_task fails at its commit (or at its DELETE): the task returns    *)
(* Err and the lease transaction is dropped, which rolls the DELETE back.  *)
(* The provider call made before it is not undone and is not counted in    *)
(* the row.                                                                *)
CommitFails(t) ==
    /\ t \in DOMAIN tasks
    /\ wk[t[1]].pc = "join"
    /\ tasks[t].pc = "delete_task"
    /\ faults < MaxCommitFaults
    /\ faults' = faults + 1
    /\ tasks' = [tasks EXCEPT ![t] = Ended(@, "Err")]
    /\ UNCHANGED <<auxVars, now, subscriptions, dbVars, req, next_issue_id, wk, log>>

(* The state in which the first issue has been published to the confirmed *)
(* subscribers 1 and 2 and no worker has leased a row yet, as Spec reaches *)
(* it; queue is what the queue holds for them, calls the provider calls    *)
(* made for them so far.                                                   *)
PublishedWith(queue, calls) ==
    /\ now = 0
    /\ subscriptions = [e \in Addresses |-> IF e \in Emails THEN "confirmed" ELSE "absent"]
    /\ idempotency =
         Put(EmptyFn, <<1, 1>>, ResponseColumns(see_other("/admin/newsletters"), 0))
    /\ newsletter_issues = {1}
    /\ issue_delivery_queue = queue
    /\ dead_letter_queue = EmptyFn
    /\ req = [r \in Requests |->
                IF r = 1
                THEN [IdleRequest EXCEPT !.pc = "done", !.branch = "StartProcessing",
                         !.response = Some(see_other("/admin/newsletters"))]
                ELSE IdleRequest]
    /\ next_issue_id = 2
    /\ wk = [w \in Workers |-> IdleWorker]
    /\ tasks = EmptyFn
    /\ faults = 0
    /\ log = [published |-> Put(EmptyFn, 1, <<1, 1>>),
              confirmed_then |-> Put(EmptyFn, 1, Emails),
              enqueued |-> {1} \X Emails,
              calls |-> calls]
    /\ subscription_tokens = EmptyFn
    /\ sreq = [r \in SubscribeRequests |-> IdleSubscribe]
    /\ creq = [c \in ConfirmRequests |-> IdleConfirm]
    /\ rt = NoRoundTrip
    /\ session = FlashOnStartProcessing(<<>>)
    /\ cl = IdleCleanup
    /\ proc = "running"

InitPublished == PublishedWith([k \in {1} \X Emails |-> NewTask], EmptyFn)

(* The delivery workers on their own. *)
NextWorkers ==
    \/ \E w \in Workers : DequeueTask(w)
    \/ \E w \in Workers : DequeueReturn(w)
    \/ \E t \in TaskIds, outcome \in SendOutcomes : SendEmail(t, outcome)
    \/ \E t \in TaskIds : CompleteTask(t)
    \/ \E w \in Workers : ReturnFromJoin(w)
    \/ \E w \in Workers : WakeUp(w)

(* The workers on a published issue, with failing commits of delete_task. *)
NextCommitFaults ==
    \/ NextWorkers
    \/ \E t \in TaskIds : CommitFails(t)

SpecCommitFaults == InitPublished /\ [][NextCommitFaults]_vars

(* A queue row as the UPDATE of update_retry_tracking leaves it after the   *)
(* n-th failed call, made at instant 0.                                    *)
Retried(n) ==
    [attempt_count |-> n, last_attempted_at |-> Some(0), error_message |-> Some("send failed")]

(* A published issue whose first row has been retried n times, n below the *)
(* retry budget, and whose second row was never attempted. No run of this  *)
(* process gets the UPDATE through (it waits for the task's own lease);    *)
(* the database applies it when the lease holder's connection is closed    *)
(* under it, so it is a state that a newly started process can find.       *)
InitRetried ==
    \E n \in 1..(MAX_RETRY_ATTEMPTS - 1) :
        PublishedWith(Put(Put(EmptyFn, <<1, 1>>, Retried(n)), <<1, 2>>, NewTask),
                      Put(EmptyFn, <<1, 1>>, [i \in 1..n |-> "Err"]))

(* The instants at which the clock is read: around the waits of 2, 4, 8    *)
(* and 16 periods.                                                         *)
BackoffInstants == {1, 2, 3, 4, 7, 8, 15, 16, 17}

NextBackoff ==
    \/ NextWorkers
    \/ \E t \in BackoffInstants : Pass(t)

SpecBackoff == InitRetried /\ [][NextBackoff]_vars

(* The same with failing commits of delete_task. *)
NextDeadLetter ==
    \/ NextBackoff
    \/ \E t \in TaskIds : CommitFails(t)

SpecDeadLetter == InitRetried /\ [][NextDeadLetter]_vars

(* --------------------------- the worker's pool ------------------------- *)
(* The most connections the worker's pool opens. get_connection_pool sets  *)
(* the acquire timeout and leaves the size to the library's default.       *)
PoolBound == 2

(* The pool connections of worker w that are checked out: one per open     *)
(* lease transaction. A statement run on the pool checks one out for its   *)
(* duration and returns it.                                                *)
InUse(w) == Cardinality({t \in TasksOf(w) : tasks[t].txn_open})

(* pool.acquire() gets a connection without waiting for one to come back. *)
Acquirable(w) == InUse(w) < PoolBound

(* dequeue_tasks, an iteration that finds a row: pool.begin() first takes  *)
(* a connection from the pool.                                             *)
BeginAndLease(w) ==
    /\ Acquirable(w)
    /\ DequeueTask(w)

(* dequeue_tasks returns: at the limit, or after an iteration whose        *)
(* pool.begin() got a connection and whose SELECT found no row.            *)
BeginAndReturn(w) ==
    /\ wk[w].n = CONCURRENT_TASKS \/ Acquirable(w)
    /\ DequeueReturn(w)

(* dequeue_tasks, an iteration whose pool.begin() finds every connection   *)
(* checked out by the leases this loop has taken: nothing returns one      *)
(* while the loop waits, so the acquire times out after two seconds and    *)
(* `?` returns the error; the leases are dropped with the vector, no task  *)
(* is spawned, and worker_loop sleeps a second.                            *)
BeginTimesOut(w) ==
    /\ wk[w].pc = "dequeue_tasks"
    /\ wk[w].n < CONCURRENT_TASKS
    /\ ~Acquirable(w)
    /\ tasks' = [t \in DOMAIN tasks \ TasksOf(w) |-> tasks[t]]
    /\ wk' = [wk EXCEPT ![w] = [IdleWorker EXCEPT !.pc = "sleep_1s"]]
    /\ UNCHANGED <<auxVars, now, subscriptions, dbVars, req, next_issue_id, faults, log>>

(* execute_single_task with a pool connection for its reads. *)
AcquireAndSend(t, outcome) ==
    /\ Acquirable(t[1])
    /\ SendEmail(t, outcome)

(* The workers on a published issue, each with its bounded pool. With a    *)
(* bound below CONCURRENT_TASKS a batch that gets to its join loop holds   *)
(* fewer leases than the bound.                                            *)
NextPool ==
    \/ \E w \in Workers : BeginAndLease(w)
    \/ \E w \in Workers : BeginAndReturn(w)
    \/ \E w \in Workers : BeginTimesOut(w)
    \/ \E t \in TaskIds, outcome \in SendOutcomes : AcquireAndSend(t, outcome)
    \/ \E t \in TaskIds : CompleteTask(t)
    \/ \E w \in Workers : ReturnFromJoin(w)
    \/ \E w \in Workers : WakeUp(w)

SpecPool == InitPublished /\ [][NextPool]_vars

(* The same with database errors and panics in the tasks and in the        *)
(* leasing of a batch.                                                     *)
NextBatch ==
    \/ NextBackoff
    \/ \E t \in TaskIds, how \in Failures : TaskFails(t, how)
    \/ \E w \in Workers : DequeueFails(w)

SpecBatch == InitRetried /\ [][NextBatch]_vars

(* ------------------------------ the process ---------------------------- *)
(* A task whose future is dropped at the await it is at: it runs no        *)
(* further, and its lease transaction is dropped with it, which rolls it   *)
(* back. send_result keeps what the provider had answered.                 *)
Cancelled(task) == [task EXCEPT !.pc = "done", !.txn_open = FALSE, !.result = "Cancelled"]

(* main returns: one of the three top-level tasks has ended (the HTTP      *)
(* server stopped, or a task panicked) and select! is over. worker_loop    *)
(* and the tasks of its join set take no shutdown signal and are not       *)
(* waited for: dropping the runtime drops each of them at the await it is  *)
(* at; the process exits and its database connections are closed. A lease  *)
(* or request transaction is rolled back. An UPDATE of                     *)
(* update_retry_tracking that is waiting for its row's lock has been sent  *)
(* to the database, which runs it when the lock is released, or drops it   *)
(* with the connection.                                                    *)
ProcessExit(applied) ==
    /\ proc = "running"
    /\ proc' = "exited"
    /\ wk' = [w \in Workers |-> [wk[w] EXCEPT !.pc = "exited"]]
    /\ tasks' = [t \in DOMAIN tasks |->
                   IF tasks[t].pc = "done" THEN tasks[t] ELSE Cancelled(tasks[t])]
    /\ issue_delivery_queue' =
         [k \in DOMAIN issue_delivery_queue |->
             IF applied /\ \E t \in DOMAIN tasks :
                              tasks[t].row = k /\ tasks[t].pc = "update_retry_tracking"
             THEN LET t == CHOOSE t \in DOMAIN tasks :
                              tasks[t].row = k /\ tasks[t].pc = "update_retry_tracking"
                  IN [attempt_count |-> tasks[t].new_attempt_count,
                      last_attempted_at |-> Some(now),
                      error_message |-> Some("send failed")]
             ELSE issue_delivery_queue[k]]
    /\ req' = [r \in Requests |->
                 IF req[r].pc \in {"idle", "done"} THEN req[r]
                 ELSE [req[r] EXCEPT !.pc = "done", !.txn = NoTxn, !.branch = "cancelled"]]
    /\ sreq' = [r \in SubscribeRequests |->
                  IF sreq[r].pc \in {"idle", "done"} THEN sreq[r]
                  ELSE [sreq[r] EXCEPT !.pc = "done", !.inserted = FALSE]]
    /\ creq' = [c \in ConfirmRequests |->
                  IF creq[c].pc \in {"idle", "done"} THEN creq[c]
                  ELSE [creq[c] EXCEPT !.pc = "done"]]
    /\ UNCHANGED <<now, subscriptions, idempotency, newsletter_issues, dead_letter_queue,
                   next_issue_id, faults, log, subscription_tokens, rt, session, cl>>

(* The workers on a published issue until the process exits. *)
NextShutdown ==
    \/ NextWorkers
    \/ \E applied \in BOOLEAN : ProcessExit(applied)

SpecShutdown == InitPublished /\ [][NextShutdown]_vars

(* A database in which a confirmed subscriber is stored under an address   *)
(* that SubscriberEmail::parse rejects: a row written by another version   *)
(* of the service or by hand.                                              *)
InitStoredInvalid ==
    /\ now = 0
    /\ subscriptions = [e \in Addresses |->
                           IF e = InvalidAddress THEN "confirmed" ELSE "absent"]
    /\ idempotency = EmptyFn
    /\ newsletter_issues = {}
    /\ issue_delivery_queue = EmptyFn
    /\ dead_letter_queue = EmptyFn
    /\ req = [r \in Requests |-> IdleRequest]
    /\ next_issue_id = 1
    /\ wk = [w \in Workers |-> IdleWorker]
    /\ tasks = EmptyFn
    /\ faults = 0
    /\ log = [published |-> EmptyFn, confirmed_then |-> EmptyFn, enqueued |-> {},
              calls |-> EmptyFn]
    /\ subscription_tokens = EmptyFn
    /\ sreq = [r \in SubscribeRequests |-> IdleSubscribe]
    /\ creq = [c \in ConfirmRequests |-> IdleConfirm]
    /\ rt = NoRoundTrip
    /\ session = <<>>
    /\ cl = IdleCleanup
    /\ proc = "running"

SpecStoredInvalid == InitStoredInvalid /\ [][Next]_vars

(* Faulty: the reservation was inserted on the pool, outside the           *)
(* transaction, and outlives it.                                           *)
idempotency_with_reservation(r) ==
    Put(idempotency, Fingerprint(r),
        [response_status_code |-> None, response_headers |-> None,
         response_body |-> None, created_at |-> req[r].txn.created_at])

(* The idempotency table after a request's transaction is dropped without  *)
(* commit: the reservation it inserted is rolled back with it.             *)
idempotency_after_drop(r) == idempotency

(* publish_newsletter fails after try_processing returned StartProcessing  *)
(* and before save_response has committed: insert_newsletter_issue,        *)
(* enequeue_delivery_tasks, the UPDATE of save_response or its commit      *)
(* returns an error. The transaction is dropped, which rolls it back, and  *)
(* the error is mapped to a 500. When save_response is what failed, the    *)
(* flash message was pushed before it; the session layer, which is not     *)
(* part of this program, may or may not store the session of a request     *)
(* that is answered 500.                                                   *)
PublishFails(r) ==
    /\ req[r].pc \in {"enequeue_delivery_tasks", "save_response"}
    /\ faults < MaxFaults
    /\ faults' = faults + 1
    /\ idempotency' = idempotency_after_drop(r)
    /\ req' = [req EXCEPT ![r] =
                 [@ EXCEPT !.pc = "done", !.txn = NoTxn, !.branch = "failed",
                           !.response = Some(e500("publish failed"))]]
    /\ \/ session' = session
       \/ /\ req[r].pc = "save_response"
          /\ session' = FlashOnStartProcessing(session)
    /\ UNCHANGED <<otherVars, now, subscriptions, newsletter_issues, issue_delivery_queue,
                   dead_letter_queue, next_issue_id, wk, tasks, log>>

NextPublishFaults ==
    \/ Next
    \/ \E r \in Requests : PublishFails(r)

SpecPublishFaults == Init /\ [][NextPublishFaults]_vars

(* The same with the admin reading the flash messages between requests. *)
NextFlash ==
    \/ Next
    \/ GetFlashMessages

SpecFlash == Init /\ [][NextFlash]_vars

(* -------------------------- retention sweeper -------------------------- *)
TicksPerHour == 60 \div RETRY_BACKOFF_MINUTES
Hours(h) == h * TicksPerHour
Days(d) == Hours(24 * d)

(* delete_stale_idempotency_keys: Utc::now() - Duration::days(RETENTION_DAYS). *)
cutoff_date == now - Days(RETENTION_DAYS)

(* Faulty: WHERE created_at <= $1. *)
StaleOrAtCutoff(rows, cutoff) == {fp \in DOMAIN rows : rows[fp].created_at <= cutoff}

(* The rows that match WHERE created_at < $1. *)
Stale(rows, cutoff) == {fp \in DOMAIN rows : rows[fp].created_at < cutoff}

(* cleanup_loop, one iteration whose DELETE succeeds: the statement runs   *)
(* on the pool over the committed rows and is committed at once; the       *)
(* number of deleted rows is logged and the loop sleeps.                   *)
DeleteStaleIdempotencyKeys ==
    /\ cl.pc = "delete_stale_idempotency_keys"
    /\ LET stale == Stale(idempotency, cutoff_date)
       IN /\ idempotency' = [fp \in DOMAIN idempotency \ stale |-> idempotency[fp]]
          /\ cl' = [cl EXCEPT !.pc = "sleep", !.slept_at = now,
                              !.deleted = Some(Cardinality(stale))]
    /\ UNCHANGED <<now, subscriptions, newsletter_issues, issue_delivery_queue,
                   dead_letter_queue, req, next_issue_id, workerVars, log,
                   subscription_tokens, sreq, creq, rt, session, proc>>

(* cleanup_loop, one iteration whose DELETE fails: the error is logged and *)
(* the loop sleeps like after a success.                                   *)
DeleteStaleFails ==
    /\ cl.pc = "delete_stale_idempotency_keys"
    /\ faults < MaxFaults
    /\ faults' = faults + 1
    /\ cl' = [cl EXCEPT !.pc = "sleep", !.slept_at = now, !.deleted = None,
                        !.errors = @ + 1]
    /\ UNCHANGED <<now, subscriptions, dbVars, req, next_issue_id, wk, tasks, log,
                   subscription_tokens, sreq, creq, rt, session, proc>>

(* cleanup_loop, the sleep of CLEANUP_INTERVAL_HOURS is over. *)
CleanupWake ==
    /\ cl.pc = "sleep"
    /\ now >= cl.slept_at + Hours(CLEANUP_INTERVAL_HOURS)
    /\ cl' = [cl EXCEPT !.pc = "delete_stale_idempotency_keys"]
    /\ UNCHANGED <<now, subscriptions, dbVars, req, next_issue_id, workerVars, log,
                   subscription_tokens, sreq, creq, rt, session, proc>>

(* The instants at which the clock is read: rows that are 29 days, 30 days *)
(* and 31 days old, and one that is 30 days and one tick old, can meet a   *)
(* sweep.                                                                  *)
SweepInstants == {Days(2), Days(RETENTION_DAYS), Days(RETENTION_DAYS) + 1, Days(RETENTION_DAYS + 1)}

(* The publish command and the sweeper over the days. *)
NextCleanup ==
    \/ \E e \in Emails : Subscribe(e)
    \/ \E e \in Emails : Confirm(e)
    \/ \E r \in Requests, u \in Users, k \in Keys : PublishStart(r, u, k)
    \/ \E r \in Requests : TryProcessing(r)
    \/ \E r \in Requests : GetSavedResponse(r)
    \/ \E r \in Requests : EnqueueDeliveryTasks(r)
    \/ \E r \in Requests : SaveResponse(r)
    \/ \E t \in SweepInstants : Pass(t)
    \/ DeleteStaleIdempotencyKeys
    \/ DeleteStaleFails
    \/ CleanupWake

SpecCleanup == Init /\ [][NextCleanup]_vars

(* The clock is read later, at instant t, with no publish request in       *)
(* flight: a request takes no measurable part of a day.                    *)
PassBetweenRequests(t) ==
    /\ \A r \in Requests : req[r].pc \in {"idle", "done"}
    /\ Pass(t)

(* The publish command and the sweeper over the days, each request being   *)
(* served within one instant of the clock.                                 *)
NextReplay ==
    \/ \E e \in Emails : Subscribe(e)
    \/ \E e \in Emails : Confirm(e)
    \/ \E r \in Requests, u \in Users, k \in Keys : PublishStart(r, u, k)
    \/ \E r \in Requests : TryProcessing(r)
    \/ \E r \in Requests : GetSavedResponse(r)
    \/ \E r \in Requests : EnqueueDeliveryTasks(r)
    \/ \E r \in Requests : SaveResponse(r)
    \/ \E t \in SweepInstants : PassBetweenRequests(t)
    \/ DeleteStaleIdempotencyKeys
    \/ CleanupWake

SpecReplay == Init /\ [][NextReplay]_vars

(* Two admin users publishing, each under its own session's user_id. *)
Admins == {1, 2}

NextAdmins ==
    \/ \E e \in Emails : Subscribe(e)
    \/ \E e \in Emails : Confirm(e)
    \/ \E r \in Requests, u \in Admins, k \in Keys : PublishStart(r, u, k)
    \/ \E r \in Requests : TryProcessing(r)
    \/ \E r \in Requests : GetSavedResponse(r)
    \/ \E r \in Requests : EnqueueDeliveryTasks(r)
    \/ \E r \in Requests : SaveResponse(r)

SpecAdmins == Init /\ [][NextAdmins]_vars

(* ----------------------- publish, its validation ---------------------- *)
(* The form a client posts: which of the fields of FormData it holds, and  *)
(* the length of its idempotency_key.                                      *)
KeyLengths == {0, 1, IdempotencyKeyMaxLength, IdempotencyKeyMaxLength + 1}

FormInputs ==
    [title : BOOLEAN, text : BOOLEAN, html : BOOLEAN, key_len : KeyLengths]

(* Form<FormData>: every field of FormData is a String without a default,  *)
(* so the form deserializes only when all of them are present.             *)
FormDeserializes(form) == form.title /\ form.text /\ form.html

(* IdempotencyKey::try_from: 1 to IdempotencyKeyMaxLength characters. *)
IdempotencyKeyParse(form) == form.key_len >= 1 /\ form.key_len <= IdempotencyKeyMaxLength

(* The rejection of axum's Form extractor for a POST body that does not    *)
(* deserialize (FailedToDeserializeFormBody).                              *)
FormRejection ==
    [status |-> UnprocessableEntity,
     headers |-> << <<"content-type", "text/plain; charset=utf-8">> >>,
     body |-> "Failed to deserialize form body"]

(* publish_newsletter is not entered, or returns at once: the extractor    *)
(* rejects a form that does not deserialize before the handler runs, and   *)
(* the handler maps an idempotency key that does not parse to e400.        *)
(* Neither path has opened a transaction or run a statement.               *)
PublishRejected(r, form) ==
    /\ req[r].pc = "idle"
    /\ \A o \in 1..(r - 1) : req[o].pc # "idle"
    /\ ~(FormDeserializes(form) /\ IdempotencyKeyParse(form))
    /\ req' = [req EXCEPT ![r] =
                 [@ EXCEPT !.pc = "done", !.branch = "rejected",
                           !.response = IF ~FormDeserializes(form)
                                        THEN Some(FormRejection)
                                        ELSE Some(e400("invalid idempotency key"))]]
    /\ UNCHANGED <<auxVars, now, subscriptions, dbVars, next_issue_id, workerVars, log>>

NextValidation ==
    \/ Next
    \/ \E r \in Requests, form \in FormInputs : PublishRejected(r, form)

SpecValidation == Init /\ [][NextValidation]_vars

(* ------------- save_response and get_saved_response alone -------------- *)
(* The responses a handler may hand to save_response: a status code, the   *)
(* headers appended one by one, a buffered body.                           *)
StatusInputs == {100, 200, 303, 500, 999}
HeaderNames == {"location", "set-cookie"}
HeaderValues == {"a", "b"}
BodyInputs == {"", "body"}

HeaderLists ==
    UNION {[1..n -> HeaderNames \X HeaderValues] : n \in 0..MaxHeaders}

(* save_response: the row it writes for the response, and the response it  *)
(* returns, put together again from the parts it took it into.             *)
RoundTripSave(status, pairs, body) ==
    /\ rt.pc = "idle"
    /\ LET http_response == [status |-> status, headers |-> HeadersOf(pairs), body |-> body]
       IN rt' = [rt EXCEPT !.pc = "saved",
                           !.http_response = Some(http_response),
                           !.row = Some(ResponseColumns(http_response, now)),
                           !.returned = Some(http_response)]
    /\ UNCHANGED <<pubVars, session, sysVars, subscriptions, subscription_tokens, sreq, creq>>

(* get_saved_response on the row. *)
RoundTripGet ==
    /\ rt.pc = "saved"
    /\ rt' = [rt EXCEPT !.pc = "done", !.replayed = RebuildResponse(Unwrap(rt.row))]
    /\ UNCHANGED <<pubVars, session, sysVars, subscriptions, subscription_tokens, sreq, creq>>

NextRoundTrip ==
    \/ \E status \in StatusInputs, pairs \in HeaderLists, body \in BodyInputs :
          RoundTripSave(status, pairs, body)
    \/ RoundTripGet

SpecRoundTrip == Init /\ [][NextRoundTrip]_vars

(* ------------------ subscribe and confirm, step by step ---------------- *)

(* A string is the sequence of its characters' code points. *)
IsAsciiAlphanumeric(c) ==
    \/ c \in 48..57
    \/ c \in 65..90
    \/ c \in 97..122

(* The length in bytes of a character's UTF-8 encoding. *)
Utf8Len(c) == IF c < 128 THEN 1 ELSE IF c < 2048 THEN 2 ELSE IF c < 65536 THEN 3 ELSE 4

RECURSIVE StrLen(_)
(* String::len: the length in bytes. *)
StrLen(str) == IF str = <<>> THEN 0 ELSE Utf8Len(Head(str)) + StrLen(Tail(str))

(* Faulty: only the length is validated. *)
ParseLengthOnly(str) == StrLen(str) = TokenLength

(* SubscriptionToken::parse succeeds. *)
SubscriptionTokenParse(str) ==
    /\ StrLen(str) = TokenLength
    /\ \A n \in 1..Len(str) : IsAsciiAlphanumeric(str[n])

(* generate_subscription_token: TokenLength alphanumeric characters; the   *)
(* n-th token drawn is taken to differ from the ones drawn before.         *)
GeneratedToken(n) == [i \in 1..TokenLength |-> 96 + n]

NextToken == GeneratedToken(Cardinality({r \in SubscribeRequests : IsSome(sreq[r].token)}) + 1)

(* The tokens a client may send to confirm: the generated ones, and        *)
(* strings that are too short, too long, hold a '!' or hold a two-byte     *)
(* character that brings the byte length to TokenLength.                   *)
MalformedTokens ==
    { [i \in 1..(TokenLength - 1) |-> 97],
      [i \in 1..(TokenLength + 1) |-> 97],
      [i \in 1..TokenLength |-> IF i = TokenLength THEN 33 ELSE 97],
      [i \in 1..(TokenLength - 1) |-> IF i = 1 THEN 233 ELSE 97] }

TokenInputs == {GeneratedToken(n) : n \in 1..MaxSubscribes} \cup MalformedTokens

(* Faulty: the row is inserted as confirmed. *)
NewSubscriberConfirmed == "confirmed"

(* insert_subscriber: the status of the inserted row. *)
NewSubscriberStatus == "pending_confirmation"

(* subscribe: the form is parsed; a valid one opens the transaction        *)
(* (requests are numbered in the order they arrive, addresses in the order *)
(* of their first use).                                                    *)
SubscribeStart(r, e) ==
    /\ sreq[r].pc = "idle"
    /\ \A o \in 1..(r - 1) : sreq[o].pc # "idle"
    /\ e <= Cardinality({sreq[o].email : o \in 1..(r - 1)} \ {InvalidAddress}) + 1
    /\ sreq' = [sreq EXCEPT ![r] =
                  IF SubscriberEmailParse(e)
                  THEN [@ EXCEPT !.pc = "get_subscriber_by_email", !.email = e]
                  ELSE [@ EXCEPT !.pc = "done", !.email = e,
                                 !.response = Some(BadRequest)]]
    /\ UNCHANGED <<pubVars, session, sysVars, subscriptions, subscription_tokens, creq, rt>>

(* get_subscriber_by_email: the committed row for the address, if any. *)
SubscribeLookup(r) ==
    /\ sreq[r].pc = "get_subscriber_by_email"
    /\ sreq' = [sreq EXCEPT ![r] =
                  [@ EXCEPT !.pc = "write", !.seen = subscriptions[sreq[r].email]]]
    /\ UNCHANGED <<pubVars, session, sysVars, subscriptions, subscription_tokens, creq, rt>>

(* An uncommitted insert of the same address by another open transaction:  *)
(* the unique index makes this insert wait for that transaction to end.    *)
SubscriberInsertWaits(r) ==
    \E o \in SubscribeRequests \ {r} :
        /\ sreq[o].inserted
        /\ sreq[o].email = sreq[r].email

(* Faulty: subscriptions.email carries no unique index. *)
NoUniqueIndex(r) == FALSE

(* The unique index on subscriptions.email rejects the insert: a committed *)
(* row holds the address.                                                  *)
UniqueViolation(r) == subscriptions[sreq[r].email] # "absent"

(* Faulty: a token is stored on every branch. *)
StoresTokenAlways(seen) == TRUE

(* subscribe, the branches that call store_token. *)
StoresToken(seen) == seen # "confirmed"

(* subscribe, the match on the existing subscriber. A confirmed one: the   *)
(* empty transaction is committed and the courtesy email sent. A pending   *)
(* one: a new token is stored for it, committed, and the confirmation      *)
(* email sent again. None: insert_subscriber and store_token run inside    *)
(* the transaction; a unique violation is an error, which drops the        *)
(* transaction and answers 500.                                            *)
SubscribeWrite(r) ==
    /\ sreq[r].pc = "write"
    /\ LET e == sreq[r].email
           seen == sreq[r].seen
       IN IF seen # "absent"
          THEN /\ subscription_tokens' =
                    IF StoresToken(seen)
                    THEN Put(subscription_tokens, NextToken, e)
                    ELSE subscription_tokens
               /\ sreq' = [sreq EXCEPT ![r] =
                    [@ EXCEPT !.pc = "done", !.response = Some(OkStatus),
                              !.token = IF StoresToken(seen) THEN Some(NextToken) ELSE None,
                              !.mail = IF seen = "confirmed"
                                       THEN "already_subscribed" ELSE "confirmation"]]
          ELSE /\ ~SubscriberInsertWaits(r)
               /\ sreq' = [sreq EXCEPT ![r] =
                    IF UniqueViolation(r)
                    THEN [@ EXCEPT !.pc = "done", !.response = Some(InternalServerError)]
                    ELSE [@ EXCEPT !.pc = "commit", !.inserted = TRUE,
                                   !.token = Some(NextToken)]]
               /\ UNCHANGED subscription_tokens
    /\ UNCHANGED <<pubVars, session, sysVars, subscriptions, creq, rt>>

(* subscribe, the new-subscriber branch: the commit makes the row and its  *)
(* token visible; then the confirmation email is sent.                     *)
SubscribeCommit(r) ==
    /\ sreq[r].pc = "commit"
    /\ subscriptions' = [subscriptions EXCEPT ![sreq[r].email] = NewSubscriberStatus]
    /\ subscription_tokens' = Put(subscription_tokens, Unwrap(sreq[r].token), sreq[r].email)
    /\ sreq' = [sreq EXCEPT ![r] =
                  [@ EXCEPT !.pc = "done", !.inserted = FALSE, !.created = TRUE,
                            !.response = Some(OkStatus), !.mail = "confirmation"]]
    /\ UNCHANGED <<pubVars, session, sysVars, creq, rt>>

(* confirm: the token's shape is checked before any query. *)
ConfirmStart(c, token) ==
    /\ creq[c].pc = "idle"
    /\ \A o \in 1..(c - 1) : creq[o].pc # "idle"
    /\ creq' = [creq EXCEPT ![c] =
                  IF SubscriptionTokenParse(token)
                  THEN [@ EXCEPT !.pc = "get_subscriber_id_from_token", !.token = token]
                  ELSE [@ EXCEPT !.pc = "done", !.token = token,
                                 !.response = Some(BadRequest)]]
    /\ UNCHANGED <<pubVars, session, sysVars, subscriptions, subscription_tokens, sreq, rt>>

(* get_subscriber_id_from_token, on the pool; no row is a 400. *)
ConfirmLookup(c) ==
    /\ creq[c].pc = "get_subscriber_id_from_token"
    /\ creq' = [creq EXCEPT ![c] =
                  IF creq[c].token \in DOMAIN subscription_tokens
                  THEN [@ EXCEPT !.pc = "get_subscriber_status", !.db_access = TRUE,
                                 !.subscriber = Some(subscription_tokens[creq[c].token])]
                  ELSE [@ EXCEPT !.pc = "done", !.db_access = TRUE,
                                 !.response = Some(BadRequest)]]
    /\ UNCHANGED <<pubVars, session, sysVars, subscriptions, subscription_tokens, sreq, rt>>

(* Faulty: a subscriber that is already confirmed is an error. *)
confirm_subscriber_once(status) ==
    IF status = "pending_confirmation" THEN "update" ELSE "RowNotFound"

(* confirm_subscriber, the match on the current status. *)
confirm_subscriber_match(status) ==
    IF status = "confirmed" THEN "Ok"
    ELSE IF status = "absent" THEN "RowNotFound"
    ELSE "update"

(* confirm_subscriber: get_subscriber_status on the pool, then the match.  *)
ConfirmGetStatus(c) ==
    /\ creq[c].pc = "get_subscriber_status"
    /\ LET status == subscriptions[Unwrap(creq[c].subscriber)]
           next == confirm_subscriber_match(status)
       IN creq' = [creq EXCEPT ![c] =
                  IF next = "update"
                  THEN [@ EXCEPT !.pc = "update", !.seen = status]
                  ELSE [@ EXCEPT !.pc = "done", !.seen = status,
                                 !.response = IF next = "Ok" THEN Some(OkStatus)
                                              ELSE Some(InternalServerError)]]
    /\ UNCHANGED <<pubVars, session, sysVars, subscriptions, subscription_tokens, sreq, rt>>

(* confirm_subscriber: UPDATE subscriptions SET status = 'confirmed'       *)
(* WHERE id = $1, on the pool.                                             *)
ConfirmUpdate(c) ==
    /\ creq[c].pc = "update"
    /\ subscriptions' = [subscriptions EXCEPT ![Unwrap(creq[c].subscriber)] = "confirmed"]
    /\ creq' = [creq EXCEPT ![c] = [@ EXCEPT !.pc = "done", !.response = Some(OkStatus)]]
    /\ UNCHANGED <<pubVars, session, sysVars, subscription_tokens, sreq, rt>>

NextSubscriptions ==
    \/ \E r \in SubscribeRequests, e \in Addresses : SubscribeStart(r, e)
    \/ \E r \in SubscribeRequests : SubscribeLookup(r) \/ SubscribeWrite(r) \/ SubscribeCommit(r)
    \/ \E c \in ConfirmRequests, token \in TokenInputs : ConfirmStart(c, token)
    \/ \E c \in ConfirmRequests : ConfirmLookup(c) \/ ConfirmGetStatus(c) \/ ConfirmUpdate(c)

SpecSubscriptions == Init /\ [][NextSubscriptions]_vars

(* ------------------------------ properties ----------------------------- *)
Redirect == see_other("/admin/newsletters")

(* The issues inserted, committed or not, under a user and key. *)
IssuesUnder(fp) == {i \in DOMAIN log.published : log.published[i] = fp}

DoneWith(fp) == {r \in Requests : req[r].pc = "done" /\ Fingerprint(r) = fp}

(* A task is working on the row: it holds the lease and has not ended. *)
InFlight(k) == \E t \in DOMAIN tasks : tasks[t].row = k /\ tasks[t].pc # "done"

(* The worker has drained the row: it is out of the queue and no task is   *)
(* working on it.                                                          *)
Drained(k) == k \notin DOMAIN issue_delivery_queue /\ ~InFlight(k)

(* C1: however many publish requests carry the same (user_id,              *)
(* idempotency_key), once any of them has been answered exactly one        *)
(* newsletter issue was inserted under that key and it is committed, every *)
(* queue row inserted belongs to that one issue, and every answer is the   *)
(* same 303 redirect to /admin/newsletters: status, headers and body.      *)
C1_PublishIsIdempotent ==
    \A fp \in Fingerprints :
        DoneWith(fp) # {} =>
            /\ Cardinality(IssuesUnder(fp)) = 1
            /\ IssuesUnder(fp) \subseteq newsletter_issues
            /\ \A k \in log.enqueued :
                  log.published[k[1]] = fp => k[1] \in IssuesUnder(fp)
            /\ \A r \in DoneWith(fp) : req[r].response = Some(Redirect)
            /\ Cardinality({r \in DoneWith(fp) : req[r].branch = "StartProcessing"}) = 1

(* C1 witness: two answered requests with the same key, the first having   *)
(* enqueued a row, the second having replayed the saved response.          *)
C1_Witness ==
    \E r1, r2 \in Requests :
        /\ r1 # r2
        /\ req[r1].pc = "done" /\ req[r2].pc = "done"
        /\ Fingerprint(r1) = Fingerprint(r2)
        /\ req[r1].branch = "StartProcessing"
        /\ req[r2].branch = "ReturnSavedResponse"
        /\ ~req[r2].parallel
        /\ \E k \in log.enqueued : log.published[k[1]] = Fingerprint(r1)

(* C2: of two publish requests with the same (user_id, idempotency_key)    *)
(* that run in parallel, at no moment do both hold the reservation or have *)
(* both inserted an issue; once both are answered exactly one request with *)
(* that key has inserted the issue and its rows, their status and body are *)
(* identical, and every row of the issue that the worker has drained got   *)
(* exactly one provider call.                                              *)
C2_ParallelPublish ==
    \A r1, r2 \in Requests :
        (r1 # r2 /\ Fingerprint(r1) = Fingerprint(r2)
            /\ req[r1].pc # "idle" /\ req[r2].pc # "idle" /\ req[r2].parallel) =>
            /\ ~(req[r1].txn.reservation /\ req[r2].txn.reservation)
            /\ ~(req[r1].branch = "StartProcessing" /\ req[r2].branch = "StartProcessing")
            /\ (req[r1].pc = "done" /\ req[r2].pc = "done") =>
                  /\ Unwrap(req[r1].response).status = Unwrap(req[r2].response).status
                  /\ Unwrap(req[r1].response).body = Unwrap(req[r2].response).body
                  /\ Cardinality({r \in DoneWith(Fingerprint(r1)) :
                                     req[r].branch = "StartProcessing"}) = 1
                  /\ \A i \in IssuesUnder(Fingerprint(r1)) : \A e \in log.confirmed_then[i] :
                        Drained(<<i, e>>) => Len(CallsFor(<<i, e>>)) = 1

(* C2 witness: the second request arrived while the first was being        *)
(* handled, both are answered and a row of the issue has been drained.     *)
C2_Witness ==
    \E r1, r2 \in Requests :
        /\ r1 # r2
        /\ Fingerprint(r1) = Fingerprint(r2)
        /\ req[r2].parallel
        /\ req[r1].pc = "done" /\ req[r2].pc = "done"
        /\ \E i \in IssuesUnder(Fingerprint(r1)) : \E e \in log.confirmed_then[i] :
              Drained(<<i, e>>)

(* C3: in every committed state an issue row, its queue rows and the       *)
(* completed idempotency record of its publish request are visible         *)
(* together or not at all: an issue row exists exactly when the record of  *)
(* its key is completed, every idempotency row is completed, a queue row   *)
(* is never visible without its issue, and with the issue all of its rows  *)
(* have become visible.                                                    *)
C3_PublishIsAtomic ==
    /\ \A i \in DOMAIN log.published :
          i \in newsletter_issues <=>
             /\ log.published[i] \in DOMAIN idempotency
             /\ IsSome(RebuildResponse(idempotency[log.published[i]]))
    /\ \A fp \in DOMAIN idempotency :
          /\ IsSome(idempotency[fp].response_status_code)
          /\ IssuesUnder(fp) \cap newsletter_issues # {}
    /\ \A k \in DOMAIN issue_delivery_queue \cup log.enqueued : k[1] \in newsletter_issues
    /\ \A i \in newsletter_issues : \A e \in log.confirmed_then[i] : <<i, e>> \in log.enqueued

(* C3 witness: a request holds an uncommitted issue and uncommitted queue  *)
(* rows, about to commit them with its response.                           *)
C3_Witness ==
    \E r \in Requests :
        /\ req[r].pc = "save_response"
        /\ req[r].txn.rows # {}
        /\ Unwrap(req[r].txn.issue) \notin newsletter_issues

(* C4: a publish enqueues a task for exactly the addresses that were       *)
(* confirmed when its enqueue ran, none for an address then pending or     *)
(* unknown, and the provider is only ever called for (issue, address)      *)
(* pairs whose address was confirmed when that issue was enqueued.         *)
C4_OnlyConfirmedAreEnqueued ==
    /\ \A i \in newsletter_issues, e \in Addresses :
          <<i, e>> \in log.enqueued <=> e \in log.confirmed_then[i]
    /\ \A k \in DOMAIN issue_delivery_queue \cup DOMAIN log.calls :
          /\ k[1] \in DOMAIN log.confirmed_then
          /\ k[2] \in log.confirmed_then[k[1]]

(* C4 witness: an issue was published while one address was confirmed and  *)
(* another still pending, and the provider was called for the confirmed    *)
(* one.                                                                    *)
C4_Witness ==
    \E i \in newsletter_issues, e1, e2 \in Emails :
        /\ e1 \in log.confirmed_then[i]
        /\ e2 \notin log.confirmed_then[i]
        /\ subscriptions[e2] = "pending_confirmation"
        /\ <<i, e1>> \in DOMAIN log.calls

(* C5: a row whose first provider call was accepted is, once its task has  *)
(* ended, out of the delivery queue, has no dead-letter record, and got    *)
(* exactly that one provider call.                                         *)
C5_AcceptedRowIsDrained ==
    \A k \in DOMAIN log.calls :
        (log.calls[k][1] = "Ok" /\ ~InFlight(k)) =>
            /\ k \notin DOMAIN issue_delivery_queue
            /\ k \notin DOMAIN dead_letter_queue
            /\ Len(log.calls[k]) = 1

(* C5 witness: a row was sent, accepted and deleted. *)
C5_Witness ==
    \E k \in DOMAIN log.calls :
        /\ log.calls[k] = <<"Ok">>
        /\ Drained(k)
        /\ k \in log.enqueued

Count(seq, v) == Cardinality({n \in 1..Len(seq) : seq[n] = v})

RECURSIVE SumOver(_, _)
SumOver(S, f) ==
    IF S = {} THEN 0
    ELSE LET x == CHOOSE y \in S : TRUE IN f[x] + SumOver(S \ {x}, f)

(* The provider calls accepted for an address, over every issue inserted   *)
(* under a user and key.                                                   *)
Accepted(fp, e) ==
    SumOver(IssuesUnder(fp), [i \in IssuesUnder(fp) |-> Count(CallsFor(<<i, e>>), "Ok")])

(* C6: over all publish submissions and worker batches, the provider       *)
(* accepts at most one call per (user and key the content was submitted    *)
(* under, subscriber address).                                             *)
C6_AtMostOnceDelivery ==
    \A fp \in Fingerprints, e \in Addresses : Accepted(fp, e) <= 1

(* C6 witness: the key was submitted twice and the one delivery to an      *)
(* address was accepted.                                                   *)
C6_Witness ==
    \E fp \in Fingerprints, e \in Emails :
        /\ Cardinality(DoneWith(fp)) >= 2
        /\ Accepted(fp, e) = 1
        /\ \A i \in IssuesUnder(fp) : Drained(<<i, e>>)


(* A step of execute_single_task for the task. *)
TaskStep(t) == (\E outcome \in SendOutcomes : SendEmail(t, outcome)) \/ CompleteTask(t)

(* Nothing can happen to the row any more: no worker can lease it and no   *)
(* task that holds it can take a step.                                     *)
RowAtRest(k) ==
    /\ k \notin Leasable
    /\ \A t \in DOMAIN tasks :
          (tasks[t].row = k /\ tasks[t].pc # "done") =>
              wk[t[1]].pc = "join" /\ ~ENABLED TaskStep(t)

FailedEveryCall(k) ==
    /\ Len(CallsFor(k)) > 0
    /\ \A n \in 1..Len(CallsFor(k)) : CallsFor(k)[n] = "Err"

(* C7: when the provider has failed every call for a queue row and nothing *)
(* more can happen to the row, MAX_RETRY_ATTEMPTS calls were made, the row *)
(* is gone from the delivery queue and a dead-letter row exists for the    *)
(* pair with attempt_count = MAX_RETRY_ATTEMPTS and last_error set.        *)
C7_ExhaustedRowIsDeadLettered ==
    \A k \in log.enqueued :
        (FailedEveryCall(k) /\ RowAtRest(k)) =>
            /\ Len(CallsFor(k)) = MAX_RETRY_ATTEMPTS
            /\ k \notin DOMAIN issue_delivery_queue
            /\ k \in DOMAIN dead_letter_queue
            /\ dead_letter_queue[k].attempt_count = MAX_RETRY_ATTEMPTS
            /\ dead_letter_queue[k].last_error # ""

(* C8: a task whose provider call failed with attempts left in the budget  *)
(* and that can take no further step has ended, leaving the row in the     *)
(* queue with the incremented attempt_count, last_attempted_at and         *)
(* error_message set, and the row's lock released.                         *)
C8_RetryBookkeeping ==
    \A t \in DOMAIN tasks :
        (/\ tasks[t].send_result = "Err"
         /\ tasks[t].new_attempt_count < MAX_RETRY_ATTEMPTS
         /\ wk[t[1]].pc = "join"
         /\ ~ENABLED TaskStep(t)) =>
            /\ tasks[t].pc = "done"
            /\ tasks[t].row \in DOMAIN issue_delivery_queue
            /\ issue_delivery_queue[tasks[t].row].attempt_count = tasks[t].new_attempt_count
            /\ IsSome(issue_delivery_queue[tasks[t].row].last_attempted_at)
            /\ IsSome(issue_delivery_queue[tasks[t].row].error_message)
            /\ ~RowLocked(tasks[t].row)

Siblings(t) == {u \in DOMAIN tasks : u[1] = t[1] /\ u # t}

(* C10: a task that ends with an error or a panic changes nothing of the   *)
(* other tasks of its batch, which go on to their own commit or rollback;  *)
(* no task is dropped from the batch before it has ended; the batch then   *)
(* returns TaskCompleted, the worker going straight to its next batch; and *)
(* the worker never leaves its loop.                                       *)
C10_TaskFailuresAreIsolated ==
    [][/\ \A t \in DOMAIN tasks :
             /\ t \notin DOMAIN tasks' => tasks[t].pc = "done"
             /\ (/\ tasks[t].pc # "done"
                 /\ t \in DOMAIN tasks'
                 /\ tasks'[t].pc = "done"
                 /\ tasks'[t].result # "Ok") =>
                    \A u \in Siblings(t) : u \in DOMAIN tasks' /\ tasks'[u] = tasks[u]
       /\ \A w \in Workers :
             /\ (wk[w].pc = "join" /\ wk'[w].pc # "join") => wk'[w].pc = "dequeue_tasks"
             /\ wk'[w].pc \in {"dequeue_tasks", "join", "sleep_10s", "sleep_1s"}]_vars

(* C10 witness: in one batch a task has ended with an error or a panic and *)
(* another has sent its email and committed the deletion of its row.       *)
C10_Witness ==
    \E t, u \in DOMAIN tasks :
        /\ t[1] = u[1] /\ t # u
        /\ tasks[t].pc = "done" /\ tasks[t].result \in Failures
        /\ tasks[u].pc = "done" /\ tasks[u].result = "Ok" /\ tasks[u].send_result = "Ok"
        /\ tasks[u].row \notin DOMAIN issue_delivery_queue


(* The subscribe request took a step. *)
SubscribeStepped(r) == sreq'[r] # sreq[r]

(* The confirm request took a step. *)
ConfirmStepped(c) == creq'[c] # creq[c]

(* C12: every confirm request whose token resolves to a subscriber is      *)
(* answered 200, whether the subscriber was pending or already confirmed   *)
(* and however the requests interleave, and once it is answered the        *)
(* subscriber is confirmed.                                                *)
C12_ConfirmIsIdempotent ==
    \A c \in ConfirmRequests :
        (creq[c].pc = "done" /\ IsSome(creq[c].subscriber)) =>
            /\ creq[c].response = Some(OkStatus)
            /\ subscriptions[Unwrap(creq[c].subscriber)] = "confirmed"

(* C12 witness: the same stored token was confirmed twice; the second      *)
(* request found the subscriber already confirmed.                         *)
C12_Witness ==
    \E c1, c2 \in ConfirmRequests :
        /\ c1 # c2
        /\ creq[c1].token = creq[c2].token
        /\ creq[c1].pc = "done" /\ creq[c2].pc = "done"
        /\ creq[c1].seen = "pending_confirmation"
        /\ creq[c2].seen = "confirmed"
        /\ creq[c2].response = Some(OkStatus)

(* C13: a confirm request whose token is not TokenLength ASCII             *)
(* alphanumeric characters is answered 400 at once, without a query; one   *)
(* whose well-formed token is not stored is answered 400 after the lookup; *)
(* and no step of a request that ends in 400 changes a subscriber's status *)
(* or a token row.                                                         *)
C13_ConfirmRejectsBadTokens ==
    [][\A c \in ConfirmRequests :
          ConfirmStepped(c) =>
             /\ creq'[c].token \in MalformedTokens =>
                   /\ creq'[c].pc = "done"
                   /\ creq'[c].response = Some(BadRequest)
                   /\ ~creq'[c].db_access
             /\ (/\ creq[c].pc = "get_subscriber_id_from_token"
                 /\ creq[c].token \notin DOMAIN subscription_tokens) =>
                   /\ creq'[c].pc = "done"
                   /\ creq'[c].response = Some(BadRequest)
             /\ creq'[c].response = Some(BadRequest) =>
                   /\ subscriptions' = subscriptions
                   /\ subscription_tokens' = subscription_tokens]_vars

(* C13 witness: with a token stored, one request sent a malformed token    *)
(* and another a well-formed token that is not stored; both got 400.       *)
C13_Witness ==
    \E c1, c2 \in ConfirmRequests :
        /\ DOMAIN subscription_tokens # {}
        /\ creq[c1].pc = "done" /\ creq[c2].pc = "done"
        /\ creq[c1].token \in MalformedTokens
        /\ creq[c1].response = Some(BadRequest)
        /\ creq[c2].token \notin MalformedTokens
        /\ creq[c2].db_access
        /\ creq[c2].response = Some(BadRequest)

(* C14: over every interleaving of subscribe and confirm requests a        *)
(* confirmed subscriber stays confirmed, a new row is created as           *)
(* pending_confirmation and only by a subscribe request, and a row becomes *)
(* confirmed only by the update of a confirm request.                      *)
C14_StatusIsMonotonic ==
    [][\A e \in Emails :
          /\ subscriptions[e] = "confirmed" => subscriptions'[e] = "confirmed"
          /\ (subscriptions[e] = "absent" /\ subscriptions'[e] # "absent") =>
                /\ subscriptions'[e] = "pending_confirmation"
                /\ \E r \in SubscribeRequests :
                      SubscribeStepped(r) /\ sreq[r].email = e /\ sreq[r].pc = "commit"
          /\ (subscriptions[e] = "pending_confirmation" /\ subscriptions'[e] # subscriptions[e]) =>
                /\ subscriptions'[e] = "confirmed"
                /\ \E c \in ConfirmRequests :
                      ConfirmStepped(c) /\ creq[c].subscriber = Some(e)]_vars

(* C14 witness: a subscribe request that read the row as pending finished  *)
(* after a confirm request had confirmed it; the row is still confirmed.   *)
C14_Witness ==
    \E r \in SubscribeRequests, c \in ConfirmRequests :
        /\ sreq[r].pc = "done" /\ sreq[r].seen = "pending_confirmation"
        /\ creq[c].pc = "done" /\ creq[c].subscriber = Some(sreq[r].email)
        /\ creq[c].seen = "pending_confirmation"
        /\ IsSome(sreq[r].token)
        /\ Unwrap(sreq[r].token) # creq[c].token
        /\ subscriptions[sreq[r].email] = "confirmed"

(* The subscribe requests that committed a subscriptions row for e. *)
Creators(e) == {r \in SubscribeRequests : sreq[r].created /\ sreq[r].email = e}

(* C15: however subscribe requests for an address follow or overlap each   *)
(* other, exactly one of them creates the subscriptions row; a request     *)
(* that finds the address pending leaves subscriptions alone and adds one  *)
(* token row for the same subscriber; and a stored token keeps resolving   *)
(* to the subscriber it was stored for.                                    *)
C15_OneRowPerAddress ==
    [][/\ \A e \in Emails :
             /\ Cardinality(Creators(e)') <= 1
             /\ (Creators(e)' # {}) <=> (subscriptions'[e] # "absent")
       /\ \A t \in DOMAIN subscription_tokens :
             /\ t \in DOMAIN subscription_tokens'
             /\ subscription_tokens'[t] = subscription_tokens[t]
       /\ \A t \in DOMAIN subscription_tokens' : subscriptions'[subscription_tokens'[t]] # "absent"
       /\ \A r \in SubscribeRequests :
             (SubscribeStepped(r) /\ sreq[r].pc = "write"
                  /\ sreq[r].seen = "pending_confirmation") =>
                /\ subscriptions' = subscriptions
                /\ DOMAIN subscription_tokens' = DOMAIN subscription_tokens \cup {NextToken}
                /\ subscription_tokens'[NextToken] = sreq[r].email]_vars

(* C15 witness: of three subscribe requests for one address, one created   *)
(* the row, one that ran at the same time created nothing, and a later one *)
(* added a second token.                                                   *)
C15_Witness ==
    \E r1, r2, r3 \in SubscribeRequests :
        /\ sreq[r1].email = sreq[r2].email /\ sreq[r2].email = sreq[r3].email
        /\ sreq[r1].pc = "done" /\ sreq[r2].pc = "done" /\ sreq[r3].pc = "done"
        /\ sreq[r1].created
        /\ sreq[r2].seen = "absent" /\ ~sreq[r2].created
        /\ sreq[r3].seen = "pending_confirmation"
        /\ Cardinality({t \in DOMAIN subscription_tokens :
                           subscription_tokens[t] = sreq[r1].email}) = 2

(* C16: every subscribe request with a valid address is answered 200,      *)
(* whatever the state of the address and whatever runs at the same time.   *)
C16_SubscribeAnswerIsUniform ==
    \A r \in SubscribeRequests :
        (sreq[r].pc = "done" /\ SubscriberEmailParse(sreq[r].email)) =>
            sreq[r].response = Some(OkStatus)

(* C17: a subscribe request that finds its address confirmed writes        *)
(* nothing: no step of it changes subscriptions or subscription_tokens; it *)
(* ends with the 'already subscribed' email and a 200. An address that is  *)
(* confirmed is found confirmed.                                           *)
C17_ConfirmedSubscribeIsNoOp ==
    [][\A r \in SubscribeRequests :
          SubscribeStepped(r) =>
             /\ (sreq[r].pc = "get_subscriber_by_email"
                   /\ subscriptions[sreq[r].email] = "confirmed") =>
                   sreq'[r].seen = "confirmed"
             /\ sreq'[r].seen = "confirmed" =>
                   /\ subscriptions' = subscriptions
                   /\ subscription_tokens' = subscription_tokens
                   /\ sreq'[r].token = None
                   /\ sreq'[r].pc = "done" =>
                         /\ sreq'[r].mail = "already_subscribed"
                         /\ sreq'[r].response = Some(OkStatus)]_vars

(* C17 witness: a confirmed address subscribed again and got the courtesy  *)
(* email.                                                                  *)
C17_Witness ==
    \E r \in SubscribeRequests :
        /\ sreq[r].pc = "done"
        /\ sreq[r].seen = "confirmed"
        /\ sreq[r].mail = "already_subscribed"
        /\ DOMAIN subscription_tokens # {}


(* C11: for a leased row whose stored address does not parse the provider  *)
(* is never called; the task writes a dead-letter record for the pair with *)
(* the attempt_count it read from the row, and when it has ended the queue *)
(* row is deleted and its lease transaction closed.                        *)
C11_InvalidAddressIsDeadLettered ==
    /\ \A k \in DOMAIN log.calls : k[2] # InvalidAddress
    /\ \A t \in DOMAIN tasks :
          (tasks[t].row[2] = InvalidAddress /\ tasks[t].pc # "start") =>
             /\ tasks[t].row \in DOMAIN dead_letter_queue
             /\ dead_letter_queue[tasks[t].row].attempt_count = tasks[t].attempt_count
             /\ dead_letter_queue[tasks[t].row].last_error = "invalid email"
             /\ tasks[t].pc = "delete_task" =>
                   /\ tasks[t].row \in DOMAIN issue_delivery_queue
                   /\ dead_letter_queue[tasks[t].row].attempt_count =
                         issue_delivery_queue[tasks[t].row].attempt_count
             /\ tasks[t].pc = "done" =>
                   /\ tasks[t].result = "Ok"
                   /\ ~tasks[t].txn_open
                   /\ tasks[t].row \notin DOMAIN issue_delivery_queue
    /\ \A k \in log.enqueued :
          (k[2] = InvalidAddress /\ k \notin DOMAIN issue_delivery_queue) =>
              k \in DOMAIN dead_letter_queue

(* C11 witness: a row with an address that does not parse was leased, and  *)
(* its task ended; the row is out of the queue and in the dead-letter      *)
(* queue.                                                                  *)
C11_Witness ==
    \E t \in DOMAIN tasks :
        /\ tasks[t].row[2] = InvalidAddress
        /\ tasks[t].pc = "done"
        /\ tasks[t].row \in DOMAIN dead_letter_queue
        /\ tasks[t].row \notin DOMAIN issue_delivery_queue


(* The requests with this user and key that committed their publish. *)
Committers(fp) ==
    {r \in Requests : req[r].pc = "done" /\ req[r].branch = "StartProcessing"
                         /\ Fingerprint(r) = fp}

(* C18: as long as no request with a user and key has committed, whether   *)
(* requests with it failed after their reservation or are still at work,   *)
(* the database holds no idempotency row, no issue and no queue row for    *)
(* it, so that a later request with the key takes the reservation and      *)
(* publishes; once a request has committed, every later request with the   *)
(* key is answered with the saved redirect and at most one issue is ever   *)
(* committed under the key.                                                *)
C18_FailedPublishLeavesNothing ==
    /\ \A fp \in Fingerprints :
          /\ Committers(fp) = {} =>
                /\ fp \notin DOMAIN idempotency
                /\ IssuesUnder(fp) \cap newsletter_issues = {}
                /\ \A k \in DOMAIN issue_delivery_queue \cup log.enqueued :
                      k[1] \notin IssuesUnder(fp)
          /\ Cardinality(Committers(fp)) <= 1
          /\ Cardinality(IssuesUnder(fp) \cap newsletter_issues) <= 1
    /\ \A r \in Requests :
          /\ (req[r].pc = "try_processing" /\ ~InsertWaits(r)
                 /\ Committers(Fingerprint(r)) = {}) => n_inserted_rows(r) > 0
          /\ (req[r].pc = "done" /\ req[r].branch \notin {"StartProcessing", "failed"}) =>
                /\ req[r].branch = "ReturnSavedResponse"
                /\ req[r].response = Some(Redirect)
                /\ Committers(Fingerprint(r)) # {}
          /\ (req[r].pc = "done" /\ req[r].branch = "failed") =>
                Unwrap(req[r].response).status = InternalServerError

(* C18 witness: a request failed after its reservation; a retry with the   *)
(* same key took the reservation again and committed an issue with a row.  *)
C18_Witness ==
    \E r1, r2 \in Requests :
        /\ Fingerprint(r1) = Fingerprint(r2)
        /\ req[r1].pc = "done" /\ req[r1].branch = "failed"
        /\ req[r2].pc = "done" /\ req[r2].branch = "StartProcessing"
        /\ \E k \in log.enqueued : log.published[k[1]] = Fingerprint(r2)


(* C19: for every response handed to save_response, save_response returns  *)
(* that response unchanged, and get_saved_response on the row it wrote     *)
(* yields a response with the same status code, the same (name, value)     *)
(* header pairs in the same order, duplicates of a name included, and the  *)
(* same body.                                                              *)
C19_SavedResponseRoundTrip ==
    /\ rt.pc # "idle" => rt.returned = rt.http_response
    /\ rt.pc = "done" =>
          /\ IsSome(rt.replayed)
          /\ Unwrap(rt.replayed).status = Unwrap(rt.http_response).status
          /\ Unwrap(rt.replayed).headers = Unwrap(rt.http_response).headers
          /\ Unwrap(rt.replayed).body = Unwrap(rt.http_response).body

(* C19 witness: a response with two values under one name and a second     *)
(* name went through the round trip.                                       *)
C19_Witness ==
    /\ rt.pc = "done"
    /\ LET headers == Unwrap(rt.http_response).headers
       IN /\ Len(headers) = MaxHeaders
          /\ \E m, n \in 1..Len(headers) :
                m # n /\ headers[m][1] = headers[n][1] /\ headers[m][2] # headers[n][2]
          /\ \E m, n \in 1..Len(headers) : headers[m][1] # headers[n][1]
    /\ Unwrap(rt.http_response).status = 999


(* C20: every publish request that fails validation, by its idempotency    *)
(* key or by a missing form field, is answered 400 and has written         *)
(* nothing: it holds no transaction and no reservation.                    *)
C20_InvalidPublishIs400 ==
    \A r \in Requests :
        (req[r].pc = "done" /\ req[r].branch = "rejected") =>
            /\ Unwrap(req[r].response).status = BadRequest
            /\ ~req[r].txn.open
            /\ ~req[r].txn.reservation

(***************************************************************************)
(* C22: publish pushes the same success flash on both branches: every      *)
(* request that ends on StartProcessing or on ReturnSavedResponse appends  *)
(* the message 'The newsletter issue has been accepted - emails will go    *)
(* out shortly' to the session, and a message stays in the session until   *)
(* get_flash_messages takes the list out.                                  *)
(***************************************************************************)
AcceptedFlash ==
    [level |-> "Info",
     content |-> "The newsletter issue has been accepted - emails will go out shortly"]

Answers(r) ==
    /\ req[r].pc # "done"
    /\ req'[r].pc = "done"
    /\ req'[r].branch \in {"StartProcessing", "ReturnSavedResponse"}

C22_FlashOnBothBranches ==
    [][/\ \A r \in Requests : Answers(r) => session' = Append(session, AcceptedFlash)
       /\ session' # session =>
              \/ \E r \in Requests : Answers(r)
              \/ session' = <<>> /\ req' = req]_vars

C22_Witness ==
    \E r1, r2 \in Requests :
        /\ Fingerprint(r1) = Fingerprint(r2)
        /\ req[r1].pc = "done" /\ req[r1].branch = "StartProcessing"
        /\ req[r2].pc = "done" /\ req[r2].branch = "ReturnSavedResponse"
        /\ session = <<AcceptedFlash, AcceptedFlash>>

(***************************************************************************)
(* C21: a run of the retention sweep deletes exactly the idempotency rows  *)
(* that are more than 30 days old (8640 five-minute ticks) and changes no  *)
(* other row of any table; a sweep that fails changes nothing, logs the    *)
(* error, and the loop goes to its sleep as after a success, from which it *)
(* sweeps again.                                                           *)
(***************************************************************************)
SweepRuns == cl.pc = "delete_stale_idempotency_keys" /\ cl'.pc # cl.pc

OtherTablesUnchanged ==
    UNCHANGED <<subscriptions, subscription_tokens, newsletter_issues,
                issue_delivery_queue, dead_letter_queue>>

C21_SweepDeletesExactlyTheStale ==
    [][SweepRuns =>
          /\ cl'.pc = "sleep"
          /\ OtherTablesUnchanged
          /\ IF cl'.errors = cl.errors
             THEN /\ DOMAIN idempotency' =
                       {fp \in DOMAIN idempotency : now - idempotency[fp].created_at <= 8640}
                  /\ \A fp \in DOMAIN idempotency' : idempotency'[fp] = idempotency[fp]
                  /\ cl'.deleted =
                       Some(Cardinality(DOMAIN idempotency) - Cardinality(DOMAIN idempotency'))
             ELSE /\ idempotency' = idempotency
                  /\ cl'.errors = cl.errors + 1]_vars

(* A sweep has deleted a row that was 31 days old and has kept one that    *)
(* was 29 days old, after an earlier sweep had failed.                     *)
C21_Witness ==
    /\ cl.pc = "sleep"
    /\ cl.slept_at = now
    /\ cl.errors = 1
    /\ cl.deleted = Some(1)
    /\ \E fp \in DOMAIN idempotency : now - idempotency[fp].created_at = 29 * 288
    /\ \E r \in Requests :
          /\ req[r].pc = "done"
          /\ req[r].branch = "StartProcessing"
          /\ Fingerprint(r) \notin DOMAIN idempotency

(***************************************************************************)
(* C23: duplicate sends are bounded: whatever the provider answers and     *)
(* however often a commit fails, no queue row gets more than               *)
(* MAX_RETRY_ATTEMPTS (5) provider calls.                                  *)
(***************************************************************************)
C23_DuplicateSendsAreBounded ==
    \A k \in DOMAIN log.calls : Len(log.calls[k]) <= 5

(***************************************************************************)
(* C24: every call of try_execute_tasks terminates: a worker that has      *)
(* spawned its leased tasks gets back from its join loop, every task       *)
(* having committed or rolled back its lease; in particular the UPDATE of  *)
(* update_retry_tracking completes and the lease is rolled back after it.  *)
(* The runtime schedules every task and every worker fairly: a step that   *)
(* stays possible is taken.                                                *)
(***************************************************************************)
WorkerStep(w) == DequeueTask(w) \/ DequeueReturn(w) \/ ReturnFromJoin(w) \/ WakeUp(w)

SpecWorkersFair ==
    /\ InitPublished
    /\ [][NextWorkers]_vars
    /\ \A w \in Workers : WF_vars(WorkerStep(w))
    /\ \A t \in TaskIds : WF_vars(TaskStep(t))

C24_EveryBatchTerminates ==
    \A w \in Workers : (wk[w].pc = "join") ~> (wk[w].pc # "join")

(***************************************************************************)
(* C25: lease exclusivity: no two open lease transactions, of one batch or *)
(* of different workers, hold the same queue row; a worker has as many     *)
(* tasks as it leased rows; and a task that has not ended still holds its  *)
(* lease, so no two provider calls for one row are in flight together.     *)
(***************************************************************************)
C25_LeaseExclusivity ==
    /\ \A t1, t2 \in DOMAIN tasks :
          (t1 # t2 /\ tasks[t1].txn_open /\ tasks[t2].txn_open) =>
              tasks[t1].row # tasks[t2].row
    /\ \A w \in Workers : Cardinality(TasksOf(w)) = wk[w].n
    /\ \A t \in DOMAIN tasks : tasks[t].pc # "done" => tasks[t].txn_open

(* Both workers hold open leases at once, one of them two in one batch,    *)
(* while a provider call for one of the rows has already been made.        *)
C25_Witness ==
    \E t1, t2, t3 \in DOMAIN tasks :
        /\ t1[1] # t2[1]
        /\ t3[1] = t1[1] /\ t3 # t1
        /\ tasks[t1].txn_open /\ tasks[t2].txn_open /\ tasks[t3].txn_open
        /\ tasks[t1].pc = "delete_task"

(***************************************************************************)
(* C26: the backoff gate: a task that finds its row with last_attempted_at *)
(* set and less than the required wait elapsed makes no provider call,     *)
(* rolls its lease back and returns Ok, leaving the queue row and the      *)
(* dead-letter queue as they were; a task whose row has last_attempted_at  *)
(* unset is never gated.                                                   *)
(***************************************************************************)
Starts(t) == t \in DOMAIN tasks /\ tasks[t].pc = "start" /\ tasks'[t].pc # "start"

GateTaken(t) ==
    /\ tasks'[t].pc = "done"
    /\ tasks'[t].result = "Ok"
    /\ ~tasks'[t].txn_open

C26_BackoffGate ==
    [][\A t \in TaskIds :
          (Starts(t) /\ tasks[t].row \in DOMAIN issue_delivery_queue) =>
              LET row == issue_delivery_queue[tasks[t].row] IN
              /\ (/\ IsSome(row.last_attempted_at)
                  /\ (now - Unwrap(row.last_attempted_at)) * SecondsPerTick
                        < backoff_duration(row.attempt_count))
                   => /\ GateTaken(t)
                      /\ log'.calls = log.calls
                      /\ issue_delivery_queue' = issue_delivery_queue
                      /\ dead_letter_queue' = dead_letter_queue
              /\ row.last_attempted_at = None => ~GateTaken(t)]_vars

(* A gated task has ended inside the wait of a row retried twice, and a    *)
(* task on the row that was never attempted has called the provider.       *)
C26_Witness ==
    /\ now = 3
    /\ <<1, 1>> \in DOMAIN issue_delivery_queue
    /\ issue_delivery_queue[<<1, 1>>].attempt_count = 2
    /\ \E t \in DOMAIN tasks :
          /\ tasks[t].row = <<1, 1>>
          /\ tasks[t].pc = "done" /\ tasks[t].result = "Ok"
          /\ Len(log.calls[<<1, 1>>]) = 2
    /\ <<1, 2>> \in DOMAIN log.calls

(***************************************************************************)
(* C27: the wait required before a row with attempt_count = n is tried     *)
(* again is 5 * 60 * min(2^n, 32) seconds: a task is gated exactly when    *)
(* less than that has elapsed since last_attempted_at; from one attempt to *)
(* the next the wait does not decrease, and it never exceeds 32 times the  *)
(* base of 5 minutes.                                                      *)
(***************************************************************************)
ExpectedWait(n) == 5 * 60 * (IF n >= 5 THEN 32 ELSE 2 ^ n)

C27_BackoffSchedule ==
    /\ [](\A k \in DOMAIN issue_delivery_queue :
             issue_delivery_queue[k].attempt_count \in 0..MaxAttemptCount)
    /\ [](\A n \in 0..MaxAttemptCount :
             /\ backoff_duration(n) = ExpectedWait(n)
             /\ backoff_duration(n) <= backoff_duration(n + 1)
             /\ backoff_duration(n + 1) <= 32 * 5 * 60)
    /\ [][\A t \in TaskIds :
             (/\ Starts(t)
              /\ tasks[t].row \in DOMAIN issue_delivery_queue
              /\ IsSome(issue_delivery_queue[tasks[t].row].last_attempted_at)) =>
                 LET row == issue_delivery_queue[tasks[t].row] IN
                 GateTaken(t) <=>
                     (now - Unwrap(row.last_attempted_at)) * 300
                         < ExpectedWait(row.attempt_count)]_vars

(* A row retried three times was gated after 7 periods, and after 8 a call *)
(* was made for it.                                                        *)
C27_Witness ==
    /\ now = 8
    /\ <<1, 1>> \in DOMAIN issue_delivery_queue
    /\ issue_delivery_queue[<<1, 1>>].attempt_count = 3
    /\ Len(log.calls[<<1, 1>>]) = 4

(***************************************************************************)
(* C28: try_processing returns StartProcessing, with the transaction still *)
(* open and holding the reservation, exactly when its insert affected one  *)
(* row (no committed row has the key); otherwise it reads the saved        *)
(* response: a complete record is returned as ReturnSavedResponse with the *)
(* record's status, headers and body, and a missing one is an error that   *)
(* publish answers with 500, having inserted no issue and no queue row.    *)
(***************************************************************************)
Leaves(r, pc) == req[r].pc = pc /\ req'[r].pc # pc

C28_TryProcessingBranches ==
    [][\A r \in Requests :
          LET fp == Fingerprint(r) IN
          /\ Leaves(r, "try_processing") =>
                /\ (fp \notin DOMAIN idempotency) <=>
                      /\ req'[r].branch = "StartProcessing"
                      /\ req'[r].txn.open
                      /\ req'[r].txn.reservation
                /\ (fp \in DOMAIN idempotency) <=> req'[r].pc = "get_saved_response"
          /\ Leaves(r, "get_saved_response") =>
                /\ req'[r].pc = "done"
                /\ ~req'[r].txn.open
                /\ next_issue_id' = next_issue_id
                /\ log'.published = log.published
                /\ UNCHANGED <<newsletter_issues, issue_delivery_queue>>
                /\ IF fp \in DOMAIN idempotency /\ IsSome(idempotency[fp].response_status_code)
                   THEN /\ req'[r].branch = "ReturnSavedResponse"
                        /\ Unwrap(req'[r].response).status =
                              Unwrap(idempotency[fp].response_status_code)
                        /\ Unwrap(req'[r].response).headers =
                              Unwrap(idempotency[fp].response_headers)
                        /\ Unwrap(req'[r].response).body =
                              Unwrap(idempotency[fp].response_body)
                   ELSE /\ req'[r].branch = "error"
                        /\ Unwrap(req'[r].response).status = 500]_vars

(* A request whose insert affected no row found no saved response, the     *)
(* sweep having deleted the record in between, and was answered 500.       *)
C28_Witness ==
    \E r1, r2 \in Requests :
        /\ Fingerprint(r1) = Fingerprint(r2)
        /\ req[r1].pc = "done" /\ req[r1].branch = "StartProcessing"
        /\ req[r2].pc = "done" /\ req[r2].branch = "error"
        /\ Unwrap(req[r2].response).status = 500
        /\ newsletter_issues = {1}

(***************************************************************************)
(* C29: a key has at most one idempotency row: no request commits a        *)
(* reservation for a key that has a row; a completed row keeps its status  *)
(* code, headers and body through every step of a publish request, and     *)
(* only a run of the retention sweep removes it.                           *)
(***************************************************************************)
C29_CompletedRowIsReadOnly ==
    [][/\ \A r \in Requests :
            (Leaves(r, "save_response") /\ Fingerprint(r) \in DOMAIN idempotency')
                => Fingerprint(r) \notin DOMAIN idempotency
       /\ \A fp \in DOMAIN idempotency :
            IsSome(idempotency[fp].response_status_code) =>
                IF fp \in DOMAIN idempotency'
                THEN idempotency'[fp] = idempotency[fp]
                ELSE SweepRuns /\ req' = req]_vars

(* A completed row has been replayed to a second request and is still in   *)
(* the table, and the sweep has run since it was written.                  *)
C29_Witness ==
    \E r1, r2 \in Requests :
        /\ Fingerprint(r1) = Fingerprint(r2)
        /\ req[r1].pc = "done" /\ req[r1].branch = "StartProcessing"
        /\ req[r2].pc = "done" /\ req[r2].branch = "ReturnSavedResponse"
        /\ Fingerprint(r1) \in DOMAIN idempotency
        /\ cl.deleted = Some(0)
        /\ now > 0

(***************************************************************************)
(* C30: the worker is not interrupted in the middle of a send: when the    *)
(* process exits, every leased task either has made no provider call yet   *)
(* or has ended by its own commit or rollback of its lease; no task is cut *)
(* off between a provider call and the end of its lease.                   *)
(***************************************************************************)
C30_ExitFindsNoTaskMidway ==
    proc = "exited" =>
        \A t \in DOMAIN tasks :
            tasks[t].result = "Cancelled" => tasks[t].send_result = "none"

(* ----------------------------------------------------------------------- *)
(* C31: worker_loop sleeps between two batches exactly when the batch      *)
(* leased no row (10 s) or failed while leasing (1 s); a batch that leased *)
(* a row goes from its join loop straight to the next batch, whatever its  *)
(* tasks did; and the worker is never anywhere but in the loop.            *)
LoopPositions == {"dequeue_tasks", "join", "sleep_10s", "sleep_1s"}

C31_SleepsExactlyOnEmptyOrError ==
    [][\A w \in Workers :
         /\ wk'[w].pc \in LoopPositions
         /\ wk'[w].pc # wk[w].pc =>
               /\ wk'[w].pc = "sleep_10s" <=>
                     (wk[w].pc = "dequeue_tasks" /\ wk[w].n = 0 /\ faults' = faults)
               /\ wk'[w].pc = "sleep_1s" <=>
                     (wk[w].pc = "dequeue_tasks" /\ faults' # faults)
               /\ wk'[w].pc = "join" <=>
                     (wk[w].pc = "dequeue_tasks" /\ wk[w].n > 0 /\ faults' = faults)
               /\ wk[w].pc = "join" => wk'[w].pc = "dequeue_tasks"]_vars

(* A batch is over in which one task was stopped by the backoff gate and   *)
(* the other failed.                                                       *)
C31_Witness ==
    \E w \in Workers :
        /\ wk[w].pc = "join"
        /\ JoinOutcome(w) = "TaskCompleted"
        /\ \E t, u \in TasksOf(w) :
              /\ tasks[t].result = "Ok" /\ tasks[t].send_result = "none"
              /\ tasks[t].row \in DOMAIN issue_delivery_queue
              /\ tasks[u].result \in Failures

(***************************************************************************)
(* C32: every committed idempotency row has its three response columns     *)
(* set. A reservation exists only inside the open transaction that         *)
(* inserted it, which the committed table does not show, and a request     *)
(* with the same key does not get past its insert while that transaction   *)
(* is open.                                                                *)
(***************************************************************************)
CompleteRows(table) ==
    \A fp \in DOMAIN table :
        /\ IsSome(table[fp].response_status_code)
        /\ IsSome(table[fp].response_headers)
        /\ IsSome(table[fp].response_body)

HoldsReservation(r) == req[r].txn.open /\ req[r].txn.reservation

C32_NoCommittedRowWithoutResponse ==
    [][/\ CompleteRows(idempotency) /\ CompleteRows(idempotency')
       /\ \A r \in Requests :
             /\ req[r].txn.reservation =>
                   /\ req[r].txn.open
                   /\ Fingerprint(r) \notin DOMAIN idempotency
             /\ Leaves(r, "try_processing") =>
                   ~\E o \in Requests \ {r} :
                       HoldsReservation(o) /\ Fingerprint(o) = Fingerprint(r)]_vars

(* A request holds a reservation, which the committed table does not show, *)
(* and another request with the same key waits at its insert.              *)
C32_Witness ==
    \E r1, r2 \in Requests :
        /\ r1 # r2
        /\ Fingerprint(r1) = Fingerprint(r2)
        /\ HoldsReservation(r1)
        /\ req[r2].pc = "try_processing"
        /\ InsertWaits(r2)
        /\ Fingerprint(r1) \notin DOMAIN idempotency

(***************************************************************************)
(* C33: a request whose insert met a completed record (it went on to       *)
(* get_saved_response) is answered with the saved response, also when the  *)
(* retention sweep runs between its insert and its read: it never ends     *)
(* with the error "No saved response found".                               *)
(***************************************************************************)
C33_ReplaySurvivesSweep ==
    \A r \in Requests :
        (req[r].pc = "done" /\ req[r].branch \notin {"StartProcessing", "failed"}) =>
            /\ req[r].branch = "ReturnSavedResponse"
            /\ req[r].response = Some(Redirect)

(***************************************************************************)
(* C34: in every committed database state no (newsletter_issue_id,         *)
(* subscriber_email) is both in issue_delivery_queue and in                *)
(* dead_letter_queue: the dead-letter record appears together with the     *)
(* removal of the queue row, also when delete_task or its commit fails.    *)
(***************************************************************************)
C34_QueueAndDeadLetterDisjoint ==
    DOMAIN issue_delivery_queue \cap DOMAIN dead_letter_queue = {}

(***************************************************************************)
(* C37: the session holds one success flash per publish request that was   *)
(* answered with the 303 redirect, and none from a request that was        *)
(* answered 500.                                                           *)
(***************************************************************************)
Redirected == {r \in Requests : req[r].pc = "done" /\ req[r].response = Some(Redirect)}

C37_FlashOnlyWithRedirect ==
    /\ Len(session) = Cardinality(Redirected)
    /\ \A i \in 1..Len(session) : session[i] = AcceptedFlash

(***************************************************************************)
(* C38: a task that returns Err before its provider call, because a read   *)
(* of attempt_count, last_attempted_at or the issue failed, has given up   *)
(* its lease and has changed neither the queue (the row and its            *)
(* attempt_count included) nor the dead-letter queue, and no provider call *)
(* was made.                                                               *)
(***************************************************************************)
FailsBeforeSend(t) ==
    /\ t \in DOMAIN tasks /\ t \in DOMAIN tasks'
    /\ tasks[t].pc = "start"
    /\ tasks'[t].pc = "done"
    /\ tasks'[t].result = "Err"

C38_FailedReadChangesNothing ==
    [][\A t \in TaskIds :
          FailsBeforeSend(t) =>
             /\ ~tasks'[t].txn_open
             /\ tasks'[t].send_result = "none"
             /\ ~\E o \in DOMAIN tasks' :
                    o[1] = t[1] /\ tasks'[o].txn_open /\ tasks'[o].row = tasks[t].row
             /\ UNCHANGED <<issue_delivery_queue, dead_letter_queue>>
             /\ log'.calls = log.calls]_vars

(* A task on the fresh row failed at a read: the row is in the queue as it *)
(* was, unlocked, and no call was made for it.                             *)
C38_Witness ==
    \E t \in DOMAIN tasks :
        /\ tasks[t].pc = "done" /\ tasks[t].result = "Err"
        /\ tasks[t].send_result = "none"
        /\ tasks[t].row \in DOMAIN issue_delivery_queue
        /\ issue_delivery_queue[tasks[t].row] = NewTask
        /\ ~RowLocked(tasks[t].row)
        /\ CallsFor(tasks[t].row) = <<>>
        /\ dead_letter_queue = EmptyFn

(***************************************************************************)
(* C39: idempotency records are scoped per user. A request is answered     *)
(* with a saved response only when a request of the same user with the     *)
(* same key has committed it; a request that takes the StartProcessing     *)
(* branch commits an issue and a record of its own, also when another user *)
(* has used the same key.                                                  *)
(***************************************************************************)
SameUserAndKey(r, o) ==
    /\ req[o].user_id = req[r].user_id
    /\ req[o].idempotency_key = req[r].idempotency_key

Published(r) == req[r].pc = "done" /\ req[r].branch = "StartProcessing"

C39_RecordsAreScopedPerUser ==
    /\ \A r \in Requests :
          /\ (req[r].pc = "done" /\ req[r].branch = "ReturnSavedResponse") =>
                \E o \in Requests \ {r} : SameUserAndKey(r, o) /\ Published(o)
          /\ Published(r) =>
                /\ <<req[r].user_id, req[r].idempotency_key>> \in DOMAIN idempotency
                /\ \E i \in newsletter_issues :
                      log.published[i] = <<req[r].user_id, req[r].idempotency_key>>
          /\ req[r].pc = "done" => req[r].branch # "error"
    /\ \A r, o \in Requests :
          (r # o /\ Published(r) /\ Published(o)) => ~SameUserAndKey(r, o)

(* Two users have each published under the same key: two records and two  *)
(* issues.                                                                 *)
C39_Witness ==
    \E r, o \in Requests :
        /\ req[r].user_id # req[o].user_id
        /\ req[r].idempotency_key = req[o].idempotency_key
        /\ Published(r) /\ Published(o)
        /\ Cardinality(DOMAIN idempotency) = 2
        /\ Cardinality(newsletter_issues) = 2

(***************************************************************************)
(* C36: a batch never stalls on the worker's pool: a batch that holds      *)
(* leases goes on to run its tasks, of which at least one gets the pool    *)
(* connection for its reads; the leases are never given up for want of a   *)
(* connection.                                                             *)
(***************************************************************************)
C36_BatchNeverStallsOnPool ==
    [][\A w \in Workers :
          /\ (wk[w].pc = "dequeue_tasks" /\ wk[w].n > 0 /\ wk'[w].pc # "dequeue_tasks")
                => wk'[w].pc = "join"
          /\ wk'[w].pc = "join" =>
                \E t \in TasksOf(w)' : tasks'[t].pc # "start" \/ Acquirable(w)']_vars

(***************************************************************************)
(* C35: with the worker and its tasks scheduled fairly, the clock running  *)
(* and the provider accepting every call, every queue row that was never   *)
(* attempted or whose backoff has elapsed is eventually leased and         *)
(* attempted, whatever other rows the queue holds.                         *)
(***************************************************************************)
(* execute_single_task with a provider that accepts the call. *)
AcquireAndSendAccepted(t) == AcquireAndSend(t, "Ok")

PoolWorkerStep(w) ==
    BeginAndLease(w) \/ BeginAndReturn(w) \/ BeginTimesOut(w) \/ ReturnFromJoin(w) \/ WakeUp(w)

PoolTaskStep(t) == AcquireAndSendAccepted(t) \/ CompleteTask(t)

ClockStep == \E t \in BackoffInstants : Pass(t)

(* The workers, each with its bounded pool, on a published issue with one  *)
(* row inside its backoff window and one row that was never attempted.     *)
NextReady ==
    \/ \E w \in Workers : BeginAndLease(w)
    \/ \E w \in Workers : BeginAndReturn(w)
    \/ \E w \in Workers : BeginTimesOut(w)
    \/ \E t \in TaskIds : AcquireAndSendAccepted(t)
    \/ \E t \in TaskIds : CompleteTask(t)
    \/ \E w \in Workers : ReturnFromJoin(w)
    \/ \E w \in Workers : WakeUp(w)
    \/ ClockStep

SpecReadyFair ==
    /\ InitRetried
    /\ [][NextReady]_vars
    /\ \A w \in Workers : WF_vars(PoolWorkerStep(w))
    /\ \A t \in TaskIds : WF_vars(PoolTaskStep(t))
    /\ WF_vars(ClockStep)

ReadyRow(k) ==
    /\ k \in DOMAIN issue_delivery_queue
    /\ ~TooSoon(issue_delivery_queue[k].attempt_count,
                issue_delivery_queue[k].last_attempted_at)

AttemptedNow(k) ==
    \E t \in DOMAIN tasks : tasks[t].row = k /\ tasks[t].send_result # "none"

====
